---- MODULE Spec2Model ----
(***************************************************************************)
(* Model of the puzzle generation core of the water-sort game:             *)
(*   src/src/utils/sort-puzzle-generator.ts  (createPuzzle and helpers)    *)
(*   src/src/utils/puzzle-adapter.ts         (generatePuzzleWithAdapter)   *)
(*                                                                         *)
(* 32-bit unsigned words are pairs <<hi, lo>> of 16-bit halves, so that    *)
(* the mulberry32 generator and the FNV string hash are computed with the  *)
(* width the JavaScript operators (>>>, ^, |, Math.imul) give them.        *)
(***************************************************************************)
EXTENDS Integers, Sequences, FiniteSets, TLC

(* ------------------------------------------------------------------ *)
(* Bounds of the model (inputs of createPuzzle and of the adapter)     *)
(* ------------------------------------------------------------------ *)
MaxColorCount == 3
MaxTubeCount == 3
MaxTubeSize == 3
MaxEmptyTubes == 1
MaxDifficulty == 11
MaxAdapterEmpty == 7
MaxBadTubes == 2
MaxHalfTubes == 2
MaxBoardEmpty == 3

MaxRuns == 2

MaxConfiguredEmpty == 3

(* ------------------------------------------------------------------ *)
(* Optional values (a field that may be absent: undefined)             *)
(* ------------------------------------------------------------------ *)
None == {}

Some(x) == {x}

OrElse(o, d) == IF o = {} THEN d ELSE CHOOSE x \in o : TRUE

(* ------------------------------------------------------------------ *)
(* 32-bit words                                                        *)
(* ------------------------------------------------------------------ *)
W16 == 65536

RECURSIVE XorBits(_, _)
XorBits(a, b) ==
    IF a = 0 THEN b
    ELSE IF b = 0 THEN a
    ELSE ((a + b) % 2) + 2 * XorBits(a \div 2, b \div 2)

RECURSIVE OrBits(_, _)
OrBits(a, b) ==
    IF a = 0 THEN b
    ELSE IF b = 0 THEN a
    ELSE (IF a % 2 = 1 \/ b % 2 = 1 THEN 1 ELSE 0) + 2 * OrBits(a \div 2, b \div 2)

\* the bitwise operators on bytes, tabulated
XorByte == [a \in 0..255 |-> [b \in 0..255 |-> XorBits(a, b)]]

OrByte == [k \in {1, 61} |-> [b \in 0..255 |-> OrBits(k, b)]]

Xor16(a, b) ==
    XorByte[a \div 256][b \div 256] * 256 + XorByte[a % 256][b % 256]

\* x ^ y
XorW(x, y) == <<Xor16(x[1], y[1]), Xor16(x[2], y[2])>>

\* k | x for the constants k the generator uses (1 and 61)
OrLow(k, x) == <<x[1], (x[2] \div 256) * 256 + OrByte[k][x[2] % 256]>>

\* x >>> n for 0 < n < 16, given p = 2^n and q = 2^(16 - n)
ShrW(x, p, q) == <<x[1] \div p, (x[1] % p) * q + x[2] \div p>>

\* (x + y) mod 2^32
AddW(x, y) ==
    LET lo == x[2] + y[2]
    IN  <<(x[1] + y[1] + lo \div W16) % W16, lo % W16>>

\* (a * b) mod 2^16 for a, b < 2^16, without leaving 32-bit integers
MulMod16(a, b) == ((((a \div 256) * b) % 256) * 256 + (a % 256) * b) % W16

\* Math.imul(x, y): the low 32 bits of the product
Imul(x, y) ==
    LET p1  == (x[2] \div 256) * y[2]
        p0  == (x[2] % 256) * y[2]
        mid == (p1 % 256) * 256 + p0
        llo == mid % W16
        lhi == p1 \div 256 + mid \div W16
    IN  <<(lhi + MulMod16(x[1], y[2]) + MulMod16(x[2], y[1])) % W16, llo>>

\* n >>> 0 for an integer n with |n| < 2^31
ToUint32(n) ==
    IF n >= 0 THEN <<n \div W16, n % W16>>
    ELSE <<W16 - 1 - ((-n - 1) \div W16), W16 - 1 - ((-n - 1) % W16)>>

\* Math.floor(x / 2^32 * n) for a word x and 0 < n < 2^15
FloorMul(x, n) == (x[1] * n + (x[2] * n) \div W16) \div W16

(* ------------------------------------------------------------------ *)
(* RNG: mulberry32  (seededRng)                                        *)
(* ------------------------------------------------------------------ *)
\* t += 0x6D2B79F5
rngAdvance(t) == AddW(t, <<27947, 31221>>)

\* let r = Math.imul(t ^ (t >>> 15), 1 | t)
rngMix1(t) == Imul(XorW(t, ShrW(t, 32768, 2)), OrLow(1, t))

\* r ^= r + Math.imul(r ^ (r >>> 7), 61 | r)
rngMix2(r) == XorW(r, AddW(r, Imul(XorW(r, ShrW(r, 128, 512)), OrLow(61, r))))

\* (r ^ (r >>> 14)) >>> 0
rngMix3(r) == XorW(r, ShrW(r, 16384, 4))

\* the value returned for the advanced state t, as the numerator of x / 2^32
rngOutput(t) == rngMix3(rngMix2(rngMix1(t)))

\* Math.floor(rng() * n), with the state t before the call
rngIndex(t, n) == FloorMul(rngOutput(rngAdvance(t)), n)

\* string seed -> hash, over the string's char codes
RECURSIVE hashChars(_, _, _)
hashChars(h, chars, i) ==
    IF i > Len(chars) THEN h
    ELSE hashChars(Imul(<<h[1], Xor16(h[2], chars[i])>>, <<256, 403>>), chars, i + 1)

\* The values (Math.random() * 2 ** 31) >>> 0 may take, sampled: 7 and 2^31 - 1.
MathRandom == {<<0, 7>>, <<32767, 65535>>}

\* (variant: the supplied seed is ignored and Math.random is always drawn)
makeSeedFromRandom(seed) == MathRandom

\* The set of seeds makeSeedFrom may return: one word for a supplied seed,
\* any Math.random draw for an undefined one.
makeSeedFrom(seed) ==
    IF seed.kind = "undefined" THEN MathRandom
    ELSE IF seed.kind = "number" THEN {ToUint32(seed.num)}
    ELSE {hashChars(<<33052, 40389>>, seed.chars, 1)}

(* ------------------------------------------------------------------ *)
(* Small helpers on sequences                                          *)
(* ------------------------------------------------------------------ *)
RECURSIVE SumSeq(_, _)
SumSeq(s, i) == IF i > Len(s) THEN 0 ELSE s[i] + SumSeq(s, i + 1)

Repeat(x, n) == [k \in 1..n |-> x]

RECURSIVE Flatten(_, _)
Flatten(ss, i) == IF i > Len(ss) THEN <<>> ELSE ss[i] \o Flatten(ss, i + 1)

\* (variant: the swap written without its temporary, a[i] = a[j] only)
SwapOverwriting(s, i, j) == [s EXCEPT ![i] = s[j]]

Swap(s, i, j) == [s EXCEPT ![i] = s[j], ![j] = s[i]]

Distinct(s) == {s[k] : k \in 1..Len(s)}

(* ------------------------------------------------------------------ *)
(* Auto distribute tubes among colors  (autoDistributeTubes)           *)
(* Each helper threads the generator state t and returns it.           *)
(* ------------------------------------------------------------------ *)
\* while (remaining > 0) { result[floor(rng() * colorCount)]++; remaining--; }
RECURSIVE distributeRemaining(_, _, _, _)
distributeRemaining(result, remaining, colorCount, t) ==
    IF remaining <= 0 THEN [result |-> result, t |-> t]
    ELSE LET idx == rngIndex(t, colorCount) + 1
         IN  distributeRemaining([result EXCEPT ![idx] = @ + 1], remaining - 1,
                                 colorCount, rngAdvance(t))

\* for (i = 0; i < colorCount - 1; i++) { take = floor(rng() * (remaining + 1)); ... }
RECURSIVE distributeCuts(_, _, _, _, _)
distributeCuts(result, i, remaining, colorCount, t) ==
    IF i >= colorCount THEN [result |-> [result EXCEPT ![colorCount] = remaining], t |-> t]
    ELSE LET take == rngIndex(t, remaining + 1)
         IN  distributeCuts([result EXCEPT ![i] = take], i + 1, remaining - take,
                            colorCount, rngAdvance(t))

\* Fisher-Yates: for (i = n - 1; i > 0; i--) { j = floor(rng() * (i + 1)); swap }
\* The loop state is [arr, i, t], i the 1-based position being placed.  The loop
\* is run in blocks of 16 iterations, which only bounds the depth of evaluation.
fisherYatesStep(st) ==
    [arr |-> Swap(st.arr, st.i, rngIndex(st.t, st.i) + 1),
     i |-> st.i - 1,
     t |-> rngAdvance(st.t)]

RECURSIVE fisherYatesDownTo(_, _)
fisherYatesDownTo(st, stop) ==
    IF st.i <= stop THEN st ELSE fisherYatesDownTo(fisherYatesStep(st), stop)

RECURSIVE fisherYatesBlocks(_)
fisherYatesBlocks(st) ==
    IF st.i <= 1 THEN st
    ELSE fisherYatesBlocks(fisherYatesDownTo(st, IF st.i > 17 THEN st.i - 16 ELSE 1))

fisherYates(arr, n, t) == fisherYatesBlocks([arr |-> arr, i |-> n, t |-> t])

\* "return result" of autoDistributeTubes, with the generator state left behind
distributed(result, t) == [error |-> "", result |-> result, t |-> t]

distributedOf(d) == distributed(d.result, d.t)

\* "shuffle to avoid sorted distribution", c the cuts and the state after them
shuffledCuts(c, colorCount) ==
    fisherYatesBlocks([arr |-> c.result, i |-> colorCount, t |-> c.t])

distributedShuffled(st) == distributed(st.arr, st.t)

\* (variant: the loop that gives every colour its one tube is left out)
autoDistributeTubesNoMinimum(colorCount, tubeCount, t, allowZero) ==
    IF ~allowZero /\ tubeCount < colorCount
    THEN [error |-> "tubeCount < colorCount but allowZeroTubesForColor=false",
          result |-> <<>>, t |-> t]
    ELSE IF ~allowZero
    THEN distributedOf(distributeRemaining(Repeat(0, colorCount), tubeCount - colorCount,
                                           colorCount, t))
    ELSE distributedShuffled(
             shuffledCuts(distributeCuts(Repeat(0, colorCount), 1, tubeCount,
                                         colorCount, t),
                          colorCount))

autoDistributeTubes(colorCount, tubeCount, t, allowZero) ==
    IF ~allowZero /\ tubeCount < colorCount
    THEN [error |-> "tubeCount < colorCount but allowZeroTubesForColor=false",
          result |-> <<>>, t |-> t]
    ELSE IF ~allowZero
    THEN distributedOf(distributeRemaining(Repeat(1, colorCount), tubeCount - colorCount,
                                           colorCount, t))
    ELSE distributedShuffled(
             shuffledCuts(distributeCuts(Repeat(0, colorCount), 1, tubeCount,
                                         colorCount, t),
                          colorCount))

(* ------------------------------------------------------------------ *)
(* createPuzzle: entry checks, steps 1 and 2, flattening               *)
(* ------------------------------------------------------------------ *)
maxShuffleAttempts == 100

\* the solved state: distribution[c] tubes of tubeSize balls of colour c (0-based)
\* (c is 1-based here; a non-positive count adds no tube)
RECURSIVE solvedTubes(_, _, _, _)
solvedTubes(distribution, c, colorCount, tubeSize) ==
    IF c > colorCount THEN <<>>
    ELSE Repeat(Repeat(c - 1, tubeSize), IF distribution[c] > 0 THEN distribution[c] ELSE 0)
         \o solvedTubes(distribution, c + 1, colorCount, tubeSize)

\* (variant: the sign of the entries is not checked)
checkPerColorTubesNoSign(perColorTubes, colorCount, tubeCount, allowZero) ==
    IF Len(perColorTubes) # colorCount
    THEN "perColorTubes length must equal colorCount"
    ELSE IF SumSeq(perColorTubes, 1) # tubeCount
    THEN "perColorTubes must sum to tubeCount"
    ELSE ""

\* Step 1 for a supplied perColorTubes: the error raised, or "" and the copy
checkPerColorTubes(perColorTubes, colorCount, tubeCount, allowZero) ==
    IF Len(perColorTubes) # colorCount
    THEN "perColorTubes length must equal colorCount"
    ELSE IF SumSeq(perColorTubes, 1) # tubeCount
    THEN "perColorTubes must sum to tubeCount"
    ELSE IF ~allowZero /\ \E i \in 1..Len(perColorTubes) : perColorTubes[i] <= 0
    THEN "perColorTubes contains <= 0 but allowZero=false"
    ELSE ""

\* the Error thrown at entry, as the outcome of the entry
entryFailed(msg) ==
    [error |-> msg, distribution |-> <<>>, allBalls |-> <<>>, t |-> <<0, 0>>]

\* Step 1, "Choose per-color tube occupation", s the seed word
chooseDistribution(cfg, s, allowZero) ==
    IF cfg.perColorTubes # None
    THEN [error |-> checkPerColorTubes(OrElse(cfg.perColorTubes, <<>>), cfg.colorCount,
                                       cfg.tubeCount, allowZero),
          result |-> OrElse(cfg.perColorTubes, <<>>),
          t |-> s]
    ELSE autoDistributeTubes(cfg.colorCount, cfg.tubeCount, s, allowZero)

\* Step 2 after the solved tubes are built: the length check, then the flat array
collectBalls(cfg, step1, tubes) ==
    IF Len(tubes) # cfg.tubeCount
    THEN entryFailed("Internal mismatch: tube array incorrect length")
    ELSE [error |-> "", distribution |-> step1.result,
          allBalls |-> Flatten(tubes, 1), t |-> step1.t]

\* Step 2, "Build solved/complete state", for the outcome step1 of Step 1
buildSolved(cfg, step1) ==
    IF step1.error # "" THEN entryFailed(step1.error)
    ELSE collectBalls(cfg, step1,
                      solvedTubes(step1.result, 1, cfg.colorCount, cfg.tubeSize))

\* everything createPuzzle does before its shuffle loop, for the seed word s
createPuzzleEntry(cfg, s) ==
    IF cfg.tubeSize <= 0 \/ cfg.tubeCount <= 0 \/ cfg.colorCount <= 0
    THEN entryFailed("Invalid config: tubeSize/tubeCount/colorCount must be > 0")
    ELSE buildSolved(cfg, chooseDistribution(cfg, s,
                                             OrElse(cfg.allowZeroTubesForColor, FALSE)))

\* (variant: the inner loop stops one ball short, b < tubeSize - 1)
redistributeShort(allBalls, tubeCount, tubeSize) ==
    [k \in 1..tubeCount |-> SubSeq(allBalls, (k - 1) * tubeSize + 1, k * tubeSize - 1)]

\* Step 3, "Redistribute balls back to filled tubes"
redistribute(allBalls, tubeCount, tubeSize) ==
    [k \in 1..tubeCount |-> SubSeq(allBalls, (k - 1) * tubeSize + 1, k * tubeSize)]

diversityMetSomeTube(tubes, tubeCount, colorCount) ==
    \E k \in 1..tubeCount :
        Cardinality(Distinct(tubes[k])) >= (IF colorCount < 3 THEN colorCount ELSE 3)

\* Step 3, "Validate: ensure each tube has at least minColorsPerTube different colors"
diversityMet(tubes, tubeCount, colorCount) ==
    \A k \in 1..tubeCount :
        Cardinality(Distinct(tubes[k])) >= (IF colorCount < 3 THEN colorCount ELSE 3)

\* one pass of the loop body on the shuffled array: the tubes and the verdict
attemptOutcome(sh, tubeCount, tubeSize, colorCount) ==
    [arr |-> sh.arr, t |-> sh.t,
     tubes |-> redistribute(sh.arr, tubeCount, tubeSize),
     met |-> diversityMet(redistribute(sh.arr, tubeCount, tubeSize), tubeCount, colorCount)]

shuffleAttempt(allBalls, t, tubeCount, tubeSize, colorCount) ==
    attemptOutcome(fisherYates(allBalls, Len(allBalls), t), tubeCount, tubeSize, colorCount)

\* (variant: the empty tubes are not appended to finalTubes)
appendNoTubes(tubes, emptyTubes) == tubes

\* "Add empty tubes at the end"
appendEmptyTubes(tubes, emptyTubes) == tubes \o Repeat(<<>>, emptyTubes)

(* ------------------------------------------------------------------ *)
(* Pour rule helpers  (canPour, pourOnce); the top of a tube is its    *)
(* last element                                                        *)
(* ------------------------------------------------------------------ *)
canPour(from, to, tubeSize) ==
    IF Len(from) = 0 THEN FALSE
    ELSE IF Len(to) >= tubeSize THEN FALSE
    ELSE IF Len(to) = 0 THEN TRUE
    ELSE to[Len(to)] = from[Len(from)]

\* the while loop of pourOnce: move balls of the given colour one at a time
RECURSIVE pourLoop(_, _, _, _, _, _)
pourLoop(from, to, color, moved, limit, tubeSize) ==
    IF moved < limit /\ Len(from) > 0 /\ from[Len(from)] = color /\ Len(to) < tubeSize
    THEN pourLoop(SubSeq(from, 1, Len(from) - 1), Append(to, from[Len(from)]),
                  color, moved + 1, limit, tubeSize)
    ELSE [from |-> from, to |-> to, moved |-> moved]

pourOnce(from, to, tubeSize, maxPour) ==
    IF ~canPour(from, to, tubeSize) THEN [from |-> from, to |-> to, moved |-> 0]
    ELSE LET space == tubeSize - Len(to)
         IN  pourLoop(from, to, from[Len(from)], 0,
                      IF maxPour < space THEN maxPour ELSE space, tubeSize)

(* ------------------------------------------------------------------ *)
(* Puzzle adapter  (generatePuzzleWithAdapter and its helpers)         *)
(* ------------------------------------------------------------------ *)
TUBE_CAPACITY == 8

TUBE_COUNT == 14

BALL_COLORS ==
    <<"brown", "orange", "light_purple", "gray", "pink", "purple", "red", "green",
      "fluorescent_green", "blue", "cyan", "yellow">>

Min(a, b) == IF a < b THEN a ELSE b

Max(a, b) == IF a > b THEN a ELSE b

\* (variant: the lower clamp is 2 instead of 3)
adapterColorCountFloor2(difficulty) == Min(12, Max(2, difficulty + 2))

\* Math.min(12, Math.max(3, difficulty + 2))
adapterColorCount(difficulty) == Min(12, Max(3, difficulty + 2))

\* (variant: the upper clamp is missing)
adapterEmptyTubesNoCap(emptyTubeCount) == Max(1, emptyTubeCount)

\* Math.min(6, Math.max(1, emptyTubeCount))
adapterEmptyTubes(emptyTubeCount) == Min(6, Max(1, emptyTubeCount))

\* (variant: the colour count is not limited by the filled tubes)
adapterActualColorCountUncapped(colorCount, filledTubes) == colorCount

\* Math.min(colorCount, filledTubes)
adapterActualColorCount(colorCount, filledTubes) == Min(colorCount, filledTubes)

\* (variant: the extra tubes go to the last colours)
calculateColorDistributionLast(colorCount, filledTubes) ==
    [i \in 1..colorCount |->
        IF i > colorCount - (filledTubes % colorCount)
        THEN (filledTubes \div colorCount) + 1 ELSE filledTubes \div colorCount]

calculateColorDistribution(colorCount, filledTubes) ==
    LET tubesPerColor == filledTubes \div colorCount
        extraTubes == filledTubes % colorCount
    IN  [i \in 1..colorCount |->
            IF i - 1 < extraTubes THEN tubesPerColor + 1 ELSE tubesPerColor]

\* Math.floor((200 + difficulty * 20) * shuffleMultiplier), the multiplier
\* given in halves (2 is 1.0, 1 is 0.5)
adapterShuffleSteps(difficulty, halves) == ((200 + difficulty * 20) * halves) \div 2

\* the GeneratorConfig the adapter hands to createPuzzle
derivedConfig(acfg, actualEmptyTubes, filledTubes, actualColorCount) ==
    [colorCount |-> actualColorCount,
     tubeCount |-> filledTubes,
     tubeSize |-> TUBE_CAPACITY,
     perColorTubes |-> Some(calculateColorDistribution(actualColorCount, filledTubes)),
     shuffleSteps |-> Some(adapterShuffleSteps(acfg.difficulty,
                                               OrElse(acfg.shuffleMultiplier, 2))),
     seed |-> acfg.seed,
     allowZeroTubesForColor |-> Some(FALSE),
     emptyTubeCount |-> Some(actualEmptyTubes)]

filledTubesOf(actualEmptyTubes) == TUBE_COUNT - actualEmptyTubes

derivedForEmpty(acfg, actualEmptyTubes) ==
    derivedConfig(acfg, actualEmptyTubes, filledTubesOf(actualEmptyTubes),
                  adapterActualColorCount(adapterColorCount(acfg.difficulty),
                                          filledTubesOf(actualEmptyTubes)))

generatorConfig(acfg) ==
    derivedForEmpty(acfg, adapterEmptyTubes(OrElse(acfg.emptyTubeCount, 2)))

\* Fisher-Yates over BALL_COLORS with a generator seeded from seed, then slice
selectColors(colorCount, seed) ==
    SubSeq(fisherYates(BALL_COLORS, Len(BALL_COLORS), seed).arr, 1, colorCount)

\* tube.map(colorIndex => usedColors[colorIndex])
mapTubes(tubes, usedColors) ==
    [k \in 1..Len(tubes) |-> [b \in 1..Len(tubes[k]) |-> usedColors[tubes[k][b] + 1]]]

\* steps 5 and 6: the PuzzleAdapterResult for createPuzzle's result r
adapterResultOf(r, usedColors) ==
    [tubes |-> mapTubes(r.tubes, usedColors),
     seedUsed |-> r.seedUsed,
     perColorTubes |-> r.perColorTubes,
     usedColors |-> usedColors]

(* ------------------------------------------------------------------ *)
(* createPuzzle and the adapter as functions of the config and the     *)
(* seed word s that makeSeedFrom returned                              *)
(* ------------------------------------------------------------------ *)
shuffleAgainOnceMore(attemptCount, colorDiversityMet) ==
    ~colorDiversityMet /\ attemptCount <= maxShuffleAttempts

\* the retry loop goes into another iteration: no break, and
\* attemptCount < maxShuffleAttempts
shuffleAgain(attemptCount, colorDiversityMet) ==
    ~colorDiversityMet /\ attemptCount < maxShuffleAttempts

\* the retry loop from the outcome a of attempt number attemptCount on
RECURSIVE shuffleLoop(_, _, _)
shuffleLoop(a, attemptCount, cfg) ==
    IF ~shuffleAgain(attemptCount, a.met) THEN a.tubes
    ELSE shuffleLoop(shuffleAttempt(a.arr, a.t, cfg.tubeCount, cfg.tubeSize,
                                    cfg.colorCount),
                     attemptCount + 1, cfg)

\* createPuzzle(cfg) after the entry outcome e: the Error, or the PuzzleResult
createPuzzleFrom(cfg, s, e) ==
    IF e.error # "" THEN [error |-> e.error, result |-> None]
    ELSE [error |-> "",
          result |-> Some([tubes |->
                               appendEmptyTubes(
                                   shuffleLoop(shuffleAttempt(e.allBalls, e.t, cfg.tubeCount,
                                                              cfg.tubeSize, cfg.colorCount),
                                               1, cfg),
                                   OrElse(cfg.emptyTubeCount, 0)),
                           perColorTubes |-> e.distribution,
                           seedUsed |-> s])]

createPuzzle(cfg, s) == createPuzzleFrom(cfg, s, createPuzzleEntry(cfg, s))

\* the adapter after createPuzzle's outcome r
adapterOutcome(acfg, s, r) ==
    IF r.error # "" THEN [error |-> r.error, result |-> None]
    ELSE [error |-> "",
          result |-> Some(adapterResultOf(
                              OrElse(r.result, [tubes |-> <<>>]),
                              selectColors(adapterColorCount(acfg.difficulty), s)))]

generatePuzzleWithAdapter(acfg, s) ==
    adapterOutcome(acfg, s, createPuzzle(generatorConfig(acfg), s))

(* ------------------------------------------------------------------ *)
(* validatePuzzle: the errors it pushes, in the order it pushes them    *)
(* ------------------------------------------------------------------ *)
\* one message of the errors array: the check that failed and what it saw
validationError(check, color, n) == [check |-> check, color |-> color, n |-> n]

\* if (tubes.length !== GAME_CONFIG.TUBE_COUNT) errors.push(..)
tubeCountErrors(tubes) ==
    IF Len(tubes) # TUBE_COUNT
    THEN <<validationError("tubeCount", "", Len(tubes))>>
    ELSE <<>>

\* the else branch of the loop over the tubes: one message for each tube whose
\* length is neither 0 nor capacity
RECURSIVE capacityErrors(_, _)
capacityErrors(tubes, k) ==
    IF k > Len(tubes) THEN <<>>
    ELSE (IF Len(tubes[k]) # 0 /\ Len(tubes[k]) # TUBE_CAPACITY
          THEN <<validationError("capacity", "", Len(tubes[k]))>>
          ELSE <<>>) \o capacityErrors(tubes, k + 1)

\* emptyTubeCount after the loop
countEmptyTubes(tubes) == Cardinality({k \in 1..Len(tubes) : Len(tubes[k]) = 0})

\* (variant: the number of empty tubes is not checked)
emptyCountErrorsNone(emptyTubeCount) == <<>>

\* if (emptyTubeCount !== 2) errors.push(..)
emptyCountErrors(emptyTubeCount) ==
    IF emptyTubeCount # 2
    THEN <<validationError("emptyCount", "", emptyTubeCount)>>
    ELSE <<>>

\* the balls of the tubes of length capacity, in the order the loop visits them
RECURSIVE countedBalls(_, _)
countedBalls(tubes, k) ==
    IF k > Len(tubes) THEN <<>>
    ELSE (IF Len(tubes[k]) = TUBE_CAPACITY THEN tubes[k] ELSE <<>>)
         \o countedBalls(tubes, k + 1)

\* the positions at which colorCounts gets a new key: the first ball of each colour
firstBalls(balls) ==
    {i \in 1..Len(balls) : \A j \in 1..(i - 1) : balls[j] # balls[i]}

\* the k-th smallest member of a set of positions
nthOf(positions, k) ==
    CHOOSE i \in positions : Cardinality({j \in positions : j < i}) = k - 1

\* the keys of colorCounts in insertion order
colorKeysAt(balls, positions) ==
    [k \in 1..Cardinality(positions) |-> balls[nthOf(positions, k)]]

colorKeys(balls) == colorKeysAt(balls, firstBalls(balls))

\* colorCounts.get(color)
colorCountsGet(balls, color) == Cardinality({i \in 1..Len(balls) : balls[i] = color})

\* for (const [color, count] of colorCounts) if (count % capacity !== 0) errors.push(..)
RECURSIVE colorErrorsOf(_, _, _)
colorErrorsOf(balls, keys, i) ==
    IF i > Len(keys) THEN <<>>
    ELSE (IF colorCountsGet(balls, keys[i]) % TUBE_CAPACITY # 0
          THEN <<validationError("colorCount", keys[i], colorCountsGet(balls, keys[i]))>>
          ELSE <<>>) \o colorErrorsOf(balls, keys, i + 1)

\* (variant: the colour totals are not checked)
colorErrorsNone(balls) == <<>>

colorErrors(balls) == colorErrorsOf(balls, colorKeys(balls), 1)

\* return { valid: errors.length === 0, errors }
validated(errors) == [valid |-> Len(errors) = 0, errors |-> errors]

validatePuzzle(tubes) ==
    validated(tubeCountErrors(tubes)
              \o capacityErrors(tubes, 1)
              \o emptyCountErrors(countEmptyTubes(tubes))
              \o colorErrors(countedBalls(tubes, 1)))

(* ------------------------------------------------------------------ *)
(* Puzzle cache: the data and the sources of one pregeneration run      *)
(* ------------------------------------------------------------------ *)
\* const difficulties = [1, 5, 9]
difficulties == <<1, 5, 9>>

\* String(d), the key of a tier in a puzzles record
tierKey(d) == CASE d = 1 -> "1" [] d = 5 -> "5" [] d = 9 -> "9" [] OTHER -> "?"

\* `${difficulty}-${emptyTubeCount}`
cacheKey(difficulty, emptyTubeCount) == <<difficulty, emptyTubeCount>>

\* (variant: cache.set stores nothing)
cacheSetNothing(c, key, entry) == c

\* cache.set(key, entry)
cacheSet(c, key, entry) ==
    [k \in (DOMAIN c) \cup {key} |-> IF k = key THEN entry ELSE c[k]]

\* cache.get(cacheKey(difficulty, emptyTubeCount)) ?? null
getCachedPuzzle(c, difficulty, emptyTubeCount) ==
    IF cacheKey(difficulty, emptyTubeCount) \in DOMAIN c
    THEN Some(c[cacheKey(difficulty, emptyTubeCount)])
    ELSE None

\* Math.max(1, Math.min(6, emptyTubeCount))
clampEmptyTubes(n) == Max(1, Min(6, n))

\* getOutputConfigValueAsync('emptyTubeCount', 2) on the loaded output config
configuredEmptyTubes(outputCfg) == clampEmptyTubes(OrElse(outputCfg, 2))

\* { puzzle, difficulty: d, emptyTubeCount }
cachedPuzzleData(puzzle, d, emptyTubeCount) ==
    [puzzle |-> puzzle, difficulty |-> d, emptyTubeCount |-> emptyTubeCount]

\* an item of puzzles-config.json as scripts/generate-puzzles.ts writes it:
\* { ...result, difficulty, emptyTubeCount }
flatItem(puzzle, d, emptyTubeCount) ==
    [tubes |-> puzzle.tubes, seedUsed |-> puzzle.seedUsed,
     perColorTubes |-> puzzle.perColorTubes, usedColors |-> puzzle.usedColors,
     difficulty |-> d, emptyTubeCount |-> emptyTubeCount]

\* toCachedPuzzleData: an absent item gives null, a nested item is kept, a flat
\* item is wrapped
toCachedPuzzleData(item, difficulty, emptyTubeCount) ==
    IF item = None THEN None
    ELSE IF "puzzle" \in DOMAIN OrElse(item, <<>>) THEN item
    ELSE IF "tubes" \in DOMAIN OrElse(item, <<>>)
    THEN Some([puzzle |-> [tubes |-> OrElse(item, <<>>).tubes,
                           seedUsed |-> OrElse(item, <<>>).seedUsed,
                           perColorTubes |-> OrElse(item, <<>>).perColorTubes,
                           usedColors |-> OrElse(item, <<>>).usedColors],
               difficulty |-> OrElse(item, <<>>).difficulty,
               emptyTubeCount |-> OrElse(item, <<>>).emptyTubeCount])
    ELSE None

\* puzzles[key], None when the record has no such key
itemOf(puzzles, key) == IF key \in DOMAIN puzzles THEN Some(puzzles[key]) ELSE None

\* parsed?.puzzles && typeof parsed.emptyTubeCount === 'number'
isStoredPuzzles(parsed) ==
    /\ parsed # None
    /\ "puzzles" \in DOMAIN OrElse(parsed, <<>>)
    /\ "emptyTubeCount" \in DOMAIN OrElse(parsed, <<>>)

\* loadPuzzlesConfig: the parsed puzzles-config.json if it is a StoredPuzzles for
\* this emptyTubeCount, null otherwise
loadPuzzlesConfig(parsed, emptyTubeCount) ==
    IF isStoredPuzzles(parsed) /\ OrElse(parsed, <<>>).emptyTubeCount = emptyTubeCount
    THEN parsed
    ELSE None

\* JSON.stringify of a value, as the text put in localStorage
jsonStringify(value) == [text |-> "json", value |-> value]

\* the outcome of a step that may throw
returned(value) == [threw |-> FALSE, value |-> value]

thrown == [threw |-> TRUE, value |-> None]

\* JSON.parse(raw): throws on a text that is not JSON
jsonParse(raw) == IF raw.text = "json" THEN returned(Some(raw.value)) ELSE thrown

\* localStorage.getItem(STORAGE_KEY): throws when the storage cannot be read
getItem(storage, readable) == IF readable THEN returned(storage) ELSE thrown

\* the try block of loadFromStorage
readStorage(raw) ==
    IF raw.threw THEN thrown
    ELSE IF raw.value = None THEN returned(None)
    ELSE IF jsonParse(OrElse(raw.value, <<>>)).threw THEN thrown
    ELSE IF ~isStoredPuzzles(jsonParse(OrElse(raw.value, <<>>)).value) THEN returned(None)
    ELSE jsonParse(OrElse(raw.value, <<>>))

\* (variant: loadFromStorage without its try / catch)
loadFromStorageUncaught(storage, readable) == readStorage(getItem(storage, readable))

\* loadFromStorage: catch { return null }
loadFromStorage(storage, readable) ==
    IF readStorage(getItem(storage, readable)).threw THEN returned(None)
    ELSE readStorage(getItem(storage, readable))

\* saveToStorage: the item after localStorage.setItem, which may throw (caught)
saveToStorage(storage, writable, emptyTubeCount, data) ==
    IF writable
    THEN Some(jsonStringify([version |-> 1, emptyTubeCount |-> emptyTubeCount,
                             puzzles |-> data]))
    ELSE storage

\* generatePuzzleWithAdapter({ difficulty: d, emptyTubeCount }) with no seed
tierConfig(d, emptyTubeCount) ==
    [difficulty |-> d, emptyTubeCount |-> Some(emptyTubeCount),
     seed |-> [kind |-> "undefined", num |-> 0, chars |-> <<>>],
     shuffleMultiplier |-> None]

\* the outcome of that call for every tier, drawn seed and emptyTubeCount asked
tierPuzzles(empties) ==
    [k \in {difficulties[i] : i \in DOMAIN difficulties} \X empties \X MathRandom |->
        generatePuzzleWithAdapter(tierConfig(k[1], k[2]), k[3])]

\* the puzzle of a successful outcome
puzzleOf(outcome) == OrElse(outcome.result, [tubes |-> <<>>])

\* 1. for (const d of difficulties) over the embedded config's puzzles
RECURSIVE fromConfigFill(_, _, _, _)
fromConfigFill(c, puzzles, emptyTubeCount, i) ==
    IF i > Len(difficulties) THEN c
    ELSE fromConfigFill(
            IF toCachedPuzzleData(itemOf(puzzles, tierKey(difficulties[i])),
                                  difficulties[i], emptyTubeCount) # None
            THEN cacheSet(c, cacheKey(difficulties[i], emptyTubeCount),
                          OrElse(toCachedPuzzleData(itemOf(puzzles, tierKey(difficulties[i])),
                                                    difficulties[i], emptyTubeCount), <<>>))
            ELSE c,
            puzzles, emptyTubeCount, i + 1)

\* (variant: the check looks for item.tubes, the flat form)
hasTubesFlat(item) ==
    /\ item # None
    /\ "tubes" \in DOMAIN OrElse(item, <<>>)

\* item?.puzzle?.tubes
hasTubes(item) ==
    /\ item # None
    /\ "puzzle" \in DOMAIN OrElse(item, <<>>)
    /\ "tubes" \in DOMAIN OrElse(item, [puzzle |-> <<>>]).puzzle

\* 2. for (const d of difficulties) over the stored puzzles
RECURSIVE fromStorageFill(_, _, _, _)
fromStorageFill(c, puzzles, emptyTubeCount, i) ==
    IF i > Len(difficulties) THEN c
    ELSE fromStorageFill(
            IF hasTubes(itemOf(puzzles, tierKey(difficulties[i])))
            THEN cacheSet(c, cacheKey(difficulties[i], emptyTubeCount),
                          OrElse(itemOf(puzzles, tierKey(difficulties[i])), <<>>))
            ELSE c,
            puzzles, emptyTubeCount, i + 1)

\* 3. the tiers whose generation did not throw
generatedTiers(generate, emptyTubeCount, seeds) ==
    {i \in DOMAIN difficulties :
        generate[<<difficulties[i], emptyTubeCount, seeds[i]>>].error = ""}

\* 3. the data of one generated tier
generatedData(generate, emptyTubeCount, seeds, i) ==
    cachedPuzzleData(puzzleOf(generate[<<difficulties[i], emptyTubeCount, seeds[i]>>]),
                     difficulties[i], emptyTubeCount)

\* 3. puzzles[String(d)] = data, for the generated tiers
generatedPuzzles(generate, emptyTubeCount, seeds) ==
    [k \in {tierKey(difficulties[i]) :
                i \in generatedTiers(generate, emptyTubeCount, seeds)} |->
        generatedData(generate, emptyTubeCount, seeds,
                      CHOOSE i \in DOMAIN difficulties : tierKey(difficulties[i]) = k)]

\* 3. cache.set(cacheKey(d, emptyTubeCount), data), for the generated tiers
RECURSIVE generatedFill(_, _, _, _, _)
generatedFill(c, generate, emptyTubeCount, seeds, i) ==
    IF i > Len(difficulties) THEN c
    ELSE generatedFill(
            IF i \in generatedTiers(generate, emptyTubeCount, seeds)
            THEN cacheSet(c, cacheKey(difficulties[i], emptyTubeCount),
                          generatedData(generate, emptyTubeCount, seeds, i))
            ELSE c,
            generate, emptyTubeCount, seeds, i + 1)

\* (variant: the embedded config is never taken)
configYieldsNever(fromConfig) == FALSE

\* if (fromConfig?.puzzles)
configYields(fromConfig) == fromConfig # None

\* (variant: a stored set is taken whatever its emptyTubeCount)
storedYieldsAny(stored, emptyTubeCount) == stored # None

\* if (stored && stored.emptyTubeCount === emptyTubeCount && stored.puzzles)
storedYields(stored, emptyTubeCount) ==
    /\ stored # None
    /\ OrElse(stored, <<>>).emptyTubeCount = emptyTubeCount

\* what a run met of localStorage: the item at its read, whether the read
\* worked and whether the write did
met(storage, readable, writable) ==
    [storage |-> storage, readable |-> readable, writable |-> writable]

\* the callback of pregeneratePuzzles from "2." on, given what storage gave
afterStorage(c, storage, stored, emptyTubeCount, readable, writable, generate, seeds) ==
    IF stored.threw
    THEN [cache |-> c, storage |-> storage, tried |-> <<"config", "storage">>,
          seen |-> met(storage, readable, TRUE), threw |-> TRUE]
    ELSE IF storedYields(stored.value, emptyTubeCount)
    THEN [cache |-> fromStorageFill(c, OrElse(stored.value, <<>>).puzzles,
                                    emptyTubeCount, 1),
          storage |-> storage, tried |-> <<"config", "storage">>,
          seen |-> met(storage, readable, TRUE), threw |-> FALSE]
    ELSE [cache |-> generatedFill(c, generate, emptyTubeCount, seeds, 1),
          storage |-> saveToStorage(storage, writable, emptyTubeCount,
                                    generatedPuzzles(generate, emptyTubeCount, seeds)),
          tried |-> <<"config", "storage", "generate">>,
          seen |-> met(storage, readable, writable), threw |-> FALSE]

\* the callback of pregeneratePuzzles after its last await: the embedded
\* config, then localStorage, then live generation, where generate holds what
\* generatePuzzleWithAdapter returns and seeds what Math.random gives each tier
pregenerateFrom(c, storage, fromConfig, emptyTubeCount, readable, writable, generate, seeds) ==
    IF configYields(fromConfig)
    THEN [cache |-> fromConfigFill(c, OrElse(fromConfig, <<>>).puzzles, emptyTubeCount, 1),
          storage |-> storage, tried |-> <<"config">>,
          seen |-> met(None, TRUE, TRUE), threw |-> FALSE]
    ELSE afterStorage(c, storage, loadFromStorage(storage, readable),
                      emptyTubeCount, readable, writable, generate, seeds)

\* .then(() => undefined).catch(...): the promise resolves either way
settle(threw) == "resolved"

(* ------------------------------------------------------------------ *)
(* State                                                               *)
(* ------------------------------------------------------------------ *)
VARIABLES
    pc,                \* "idle" | "shuffle" (in the retry loop) | "done" | "error"
    config,            \* the GeneratorConfig of the call
    seedUsed,          \* makeSeedFrom(seed)
    rngT,              \* the state t of the seededRng closure
    distribution,      \* per-colour tube counts
    allBalls,          \* the flat ball array, shuffled in place
    finalTubes,        \* the tubes of the last attempt
    attemptCount,
    colorDiversityMet,
    result,            \* None, or Some(PuzzleResult)
    error,             \* the message of the Error thrown, "" if none
    first,             \* None, or Some of the first call's config and result
    adapterPc,         \* "idle" | "generating" | "done" | "error"
    adapterConfig,     \* the PuzzleAdapterConfig of the call
    adapterResult,     \* None, or Some(PuzzleAdapterResult)
    adapterFirst,      \* None, or Some of the first adapter call's config and result
    validation,        \* None, or Some of the tubes given to validatePuzzle and its result
    loaded,            \* whether the page has been loaded
    outputConfig,      \* the emptyTubeCount of the output config: None, or Some(n)
    puzzlesConfig,     \* the parsed puzzles-config.json: None, or Some(StoredPuzzles)
    storage,           \* the localStorage item: None, or Some of its text
    storageAccess,     \* whether this browser lets localStorage be read and written
    cache,             \* the Map of the puzzle cache, from cacheKey to CachedPuzzleData
    pregeneratePromise, \* _pregeneratePromise: 0 for null, or the run it belongs to
    runs,              \* the pregeneration runs started so far, in order
    awaited,           \* the promises waitForPregenerate has returned to its callers
    firstEntries,      \* for every key ever set, the entry it was first set to
    settled,           \* how many promise chains have run to their end
    generated,         \* what generatePuzzleWithAdapter returns, kept per
                       \* <<difficulty, emptyTubeCount, seed drawn>>
    selectedLevel,     \* persistentSelectedDifficulty of levelSelection
    preloadPc,         \* Preloader.generatePuzzle: "idle" | "waiting" (first await) |
                       \* "configuring" (second await) | "returned"
    preloadPromise,    \* the promise generatePuzzle awaits: 0, or the run it belongs to
    actualDifficulty,  \* the local of generatePuzzle
    preloadCatch,      \* whether generatePuzzle went through its catch block
    handed,            \* None, or Some of what generatePuzzle returned
    boardTubes,        \* Board.tubes: the balls list of every Tube, bottom first;
                       \* <<>> before the Board is constructed
    isCompleted,       \* Tube.isCompleted of every tube
    selectedTube,      \* Board.selectedTube: 0 for null, or the tube's index
    isGameActive,      \* Board.isGameActive
    jumpStepCount,     \* Board.jumpStepCount
    tweens,            \* the moves whose animations are in flight: per move, per
                       \* ball, the ball, source, target, index in target, phase
    deadlockDue,       \* whether a delayedCall of checkDeadlock is pending
    clickCount,        \* how many clicks handleTubeClick has handled
    lastClick          \* the tube of the last click handled, 0 if none

genVars == <<pc, config, seedUsed, rngT, distribution, allBalls, finalTubes,
             attemptCount, colorDiversityMet, result, error>>

adapterVars == <<adapterPc, adapterConfig, adapterResult, adapterFirst>>

cacheVars == <<loaded, outputConfig, puzzlesConfig, storage, storageAccess, cache,
               pregeneratePromise, runs, awaited, firstEntries, settled, generated>>

preloadVars == <<selectedLevel, preloadPc, preloadPromise, actualDifficulty,
                 preloadCatch, handed>>

boardVars == <<boardTubes, isCompleted, selectedTube, isGameActive, jumpStepCount,
               tweens, deadlockDue, clickCount, lastClick>>

\* the scenes of the game
sceneVars == <<preloadVars, boardVars>>

\* what createPuzzle and the adapter never touch
restVars == <<validation, cacheVars, sceneVars>>

vars == <<genVars, first, adapterVars, restVars>>

NoSeed == [kind |-> "undefined", num |-> 0, chars |-> <<>>]

NumberSeed(n) == [kind |-> "number", num |-> n, chars |-> <<>>]

StringSeed(cs) == [kind |-> "string", num |-> 0, chars |-> cs]

NoConfig ==
    [colorCount |-> 0, tubeCount |-> 0, tubeSize |-> 0, perColorTubes |-> None,
     shuffleSteps |-> None, seed |-> NoSeed, allowZeroTubesForColor |-> None,
     emptyTubeCount |-> None]

NoAdapterConfig ==
    [difficulty |-> 0, emptyTubeCount |-> None, seed |-> NoSeed, shuffleMultiplier |-> None]

Init ==
    /\ pc = "idle"
    /\ config = NoConfig
    /\ seedUsed = <<0, 0>>
    /\ rngT = <<0, 0>>
    /\ distribution = <<>>
    /\ allBalls = <<>>
    /\ finalTubes = <<>>
    /\ attemptCount = 0
    /\ colorDiversityMet = FALSE
    /\ result = None
    /\ error = ""
    /\ first = None
    /\ adapterPc = "idle"
    /\ adapterConfig = NoAdapterConfig
    /\ adapterResult = None
    /\ adapterFirst = None
    /\ validation = None
    /\ loaded = FALSE
    /\ outputConfig = None
    /\ puzzlesConfig = None
    /\ storage = None
    /\ storageAccess = [readable |-> TRUE, writable |-> TRUE]
    /\ cache = <<>>
    /\ pregeneratePromise = 0
    /\ runs = <<>>
    /\ awaited = {}
    /\ firstEntries = <<>>
    /\ settled = 0
    /\ generated = <<>>
    /\ selectedLevel = 1
    /\ preloadPc = "idle"
    /\ preloadPromise = 0
    /\ actualDifficulty = 0
    /\ preloadCatch = FALSE
    /\ handed = None
    /\ boardTubes = <<>>
    /\ isCompleted = <<>>
    /\ selectedTube = 0
    /\ isGameActive = FALSE
    /\ jumpStepCount = 0
    /\ tweens = <<>>
    /\ deadlockDue = FALSE
    /\ clickCount = 0
    /\ lastClick = 0

(* ------------------------------------------------------------------ *)
(* Inputs                                                              *)
(* ------------------------------------------------------------------ *)
\* the char codes of "level-1"
Level1 == <<108, 101, 118, 101, 108, 45, 49>>

\* 42, "level-1" and no seed
SeedInputs == {NumberSeed(42), StringSeed(Level1), NoSeed}

\* the perColorTubes arrays a caller supplies: up to MaxColorCount entries, a
\* negative one included, whose sum is at most one more than the largest tubeCount
PerColorInputs ==
    {Some(p) : p \in {q \in UNION {[1..k -> -1..MaxTubeCount] : k \in 0..MaxColorCount} :
                          SumSeq(q, 1) \in 0..(MaxTubeCount + 1)}}

\* configs that leave the distribution to autoDistributeTubes: every seed, with
\* and without empty tubes
AutoConfigs ==
    [colorCount : 0..MaxColorCount,
     tubeCount : 0..MaxTubeCount,
     tubeSize : 0..MaxTubeSize,
     perColorTubes : {None},
     shuffleSteps : {None},
     seed : SeedInputs,
     allowZeroTubesForColor : {None, Some(TRUE)},
     emptyTubeCount : {None} \cup {Some(n) : n \in 1..MaxEmptyTubes}]

\* configs that supply the distribution: every array, under one seed
SuppliedConfigs ==
    [colorCount : 0..MaxColorCount,
     tubeCount : 0..MaxTubeCount,
     tubeSize : 0..MaxTubeSize,
     perColorTubes : PerColorInputs,
     shuffleSteps : {None},
     seed : {NumberSeed(42)},
     allowZeroTubesForColor : {None, Some(TRUE)},
     emptyTubeCount : {None}]

GeneratorConfigs == AutoConfigs \cup SuppliedConfigs

(* ------------------------------------------------------------------ *)
(* createPuzzle as steps: entry, one step per shuffle attempt, return  *)
(* ------------------------------------------------------------------ *)
\* the state left by the entry outcome e of createPuzzle(cfg) with seed word s
Entered(cfg, s, e) ==
    /\ config' = cfg
    /\ seedUsed' = s
    /\ rngT' = e.t
    /\ distribution' = e.distribution
    /\ allBalls' = e.allBalls
    /\ finalTubes' = <<>>
    /\ attemptCount' = 0
    /\ colorDiversityMet' = FALSE
    /\ result' = None
    /\ error' = e.error
    /\ pc' = IF e.error # "" THEN "error" ELSE "shuffle"

\* createPuzzle(cfg) up to its shuffle loop, or to the Error it throws
Enter(cfg) ==
    \E s \in makeSeedFrom(cfg.seed) : Entered(cfg, s, createPuzzleEntry(cfg, s))

Call ==
    /\ pc = "idle"
    /\ adapterPc = "idle"
    /\ \E cfg \in GeneratorConfigs : Enter(cfg)
    /\ UNCHANGED <<first, adapterVars, restVars>>

Attempted(a) ==
    /\ attemptCount' = attemptCount + 1
    /\ allBalls' = a.arr
    /\ rngT' = a.t
    /\ finalTubes' = a.tubes
    /\ colorDiversityMet' = a.met

\* one iteration of while (attemptCount < maxShuffleAttempts) { ... }
ShuffleAttempt ==
    /\ pc = "shuffle"
    /\ shuffleAgain(attemptCount, colorDiversityMet)
    /\ Attempted(shuffleAttempt(allBalls, rngT, config.tubeCount, config.tubeSize,
                                config.colorCount))
    /\ UNCHANGED <<pc, config, seedUsed, distribution, result, error, first, adapterVars,
                   restVars>>

Returned(tubes) ==
    /\ finalTubes' = tubes
    /\ result' = Some([tubes |-> tubes, perColorTubes |-> distribution,
                       seedUsed |-> seedUsed])

\* after the loop: "Add empty tubes at the end", and the returned PuzzleResult
Return ==
    /\ pc = "shuffle"
    /\ ~shuffleAgain(attemptCount, colorDiversityMet)
    /\ Returned(appendEmptyTubes(finalTubes, OrElse(config.emptyTubeCount, 0)))
    /\ pc' = "done"
    /\ UNCHANGED <<config, seedUsed, rngT, distribution, allBalls, attemptCount,
                   colorDiversityMet, error, first, adapterVars, restVars>>

\* a second, independent createPuzzle call with the configuration of the first
Again ==
    /\ pc = "done"
    /\ adapterPc = "idle"
    /\ first = None
    /\ first' = Some([config |-> config, result |-> OrElse(result, [tubes |-> <<>>])])
    /\ Enter(config)
    /\ UNCHANGED <<adapterVars, restVars>>

(* ------------------------------------------------------------------ *)
(* generatePuzzleWithAdapter as steps around the createPuzzle call     *)
(* ------------------------------------------------------------------ *)

AdapterConfigs ==
    [difficulty : -1..MaxDifficulty,
     emptyTubeCount : {None} \cup {Some(n) : n \in -1..MaxAdapterEmpty},
     seed : SeedInputs,
     shuffleMultiplier : {None, Some(1)}]

\* steps 1 to 4: derive the generator configuration and call createPuzzle
AdapterCall ==
    /\ adapterPc = "idle"
    /\ pc = "idle"
    /\ \E acfg \in AdapterConfigs :
          /\ adapterConfig' = acfg
          /\ Enter(generatorConfig(acfg))
    /\ adapterPc' = "generating"
    /\ UNCHANGED <<first, adapterResult, adapterFirst, restVars>>

\* steps 5 and 6 once createPuzzle has returned; its Error propagates
AdapterReturn ==
    /\ adapterPc = "generating"
    /\ pc \in {"done", "error"}
    /\ IF pc = "error"
       THEN /\ adapterPc' = "error"
            /\ adapterResult' = None
       ELSE /\ adapterPc' = "done"
            /\ adapterResult' =
                   Some(adapterResultOf(
                            OrElse(result, [tubes |-> <<>>]),
                            selectColors(adapterColorCount(adapterConfig.difficulty),
                                         seedUsed)))
    /\ UNCHANGED <<genVars, first, adapterConfig, adapterFirst, restVars>>

\* a second, independent adapter call with the configuration of the first
AdapterAgain ==
    /\ adapterPc = "done"
    /\ adapterFirst = None
    /\ adapterFirst' = Some([config |-> adapterConfig,
                             result |-> OrElse(adapterResult, [tubes |-> <<>>])])
    /\ Enter(generatorConfig(adapterConfig))
    /\ adapterPc' = "generating"
    /\ adapterResult' = None
    /\ UNCHANGED <<first, adapterConfig, restVars>>

Next == Call \/ ShuffleAttempt \/ Return

Spec == Init /\ [][Next]_vars

\* an iteration of the retry loop, told by what it does to attemptCount
Iterates ==
    /\ pc = "shuffle"
    /\ shuffleAgain(attemptCount, colorDiversityMet)
    /\ pc' = "shuffle"
    /\ attemptCount' = attemptCount + 1

\* the return after the loop, told by what it does to pc
Returns ==
    /\ pc = "shuffle"
    /\ ~shuffleAgain(attemptCount, colorDiversityMet)
    /\ pc' = "done"

\* createPuzzle is synchronous code: once called it goes on, iteration after
\* iteration and then to its return. The ShuffleAttempt steps are the steps of
\* Next that are Iterates steps, and the Return steps those that are Returns
\* steps.
SpecRetry == Init /\ [][Next]_vars /\ WF_attemptCount(Iterates) /\ WF_pc(Returns)

NextTwice == Call \/ ShuffleAttempt \/ Return \/ Again

SpecTwice == Init /\ [][NextTwice]_vars

(* ------------------------------------------------------------------ *)
(* validatePuzzle called on a board                                    *)
(* ------------------------------------------------------------------ *)
\* a board of n tubes: bad tubes of badLen balls, halves tubes of two colours
\* (4 + 4), full single-colour tubes, and empties empty tubes at the end
boardOf(n, bad, badLen, halves, empties) ==
    Repeat(Repeat("red", badLen), bad)
    \o Repeat(Repeat("red", TUBE_CAPACITY \div 2) \o Repeat("blue", TUBE_CAPACITY \div 2),
               halves)
    \o Repeat(Repeat("green", TUBE_CAPACITY), n - bad - halves - empties)
    \o Repeat(<<>>, empties)

\* boards of one tube fewer than, as many as, and one more than TUBE_COUNT
ValidateBoards ==
    {boardOf(n, bad, badLen, halves, empties) :
        n \in (TUBE_COUNT - 1)..(TUBE_COUNT + 1),
        bad \in 0..MaxBadTubes,
        badLen \in {1, TUBE_CAPACITY + 1},
        halves \in 0..MaxHalfTubes,
        empties \in 0..MaxBoardEmpty}

\* validatePuzzle(tubes) returned
Validated(tubes) ==
    validation' = Some([tubes |-> tubes, result |-> validatePuzzle(tubes)])

Validate ==
    /\ pc = "idle"
    /\ adapterPc = "idle"
    /\ validation = None
    /\ \E tubes \in ValidateBoards : Validated(tubes)
    /\ UNCHANGED <<genVars, first, adapterVars, cacheVars, sceneVars>>

\* Board.initializeBallsWithPuzzle: validatePuzzle on the tubes the adapter returned
AdapterValidate ==
    /\ adapterPc = "done"
    /\ validation = None
    /\ Validated(OrElse(adapterResult, [tubes |-> <<>>]).tubes)
    /\ UNCHANGED <<genVars, first, adapterVars, cacheVars, sceneVars>>

NextAdapter ==
    AdapterCall \/ ShuffleAttempt \/ Return \/ AdapterReturn \/ AdapterAgain
    \/ AdapterValidate

SpecAdapter == Init /\ [][NextAdapter]_vars

NextValidate == Validate

SpecValidate == Init /\ [][NextValidate]_vars

(* ------------------------------------------------------------------ *)
(* The puzzle cache                                                     *)
(* ------------------------------------------------------------------ *)
\* the emptyTubeCount settings of the output config: absent, below the clamp,
\* above it, and in range
OutputConfigs == {None} \cup {Some(n) : n \in {0, 7} \cup (3..MaxConfiguredEmpty)}

\* a puzzles-config.json built for emptyTubeCount with the given tiers
builtConfig(generate, emptyTubeCount, tiers) ==
    [version |-> 1, emptyTubeCount |-> emptyTubeCount,
     puzzles |-> [k \in {tierKey(d) : d \in tiers} |->
                    flatItem(puzzleOf(generate[<<CHOOSE d \in tiers : tierKey(d) = k,
                                                 emptyTubeCount, <<0, 7>>>>]),
                             CHOOSE d \in tiers : tierKey(d) = k, emptyTubeCount)]]

\* no usable puzzles config, one built for two empty tubes, and one built for
\* two empty tubes without the tier 9
PuzzlesConfigs(generate) ==
    {None, Some(builtConfig(generate, 2, {1, 5, 9})), Some(builtConfig(generate, 2, {1, 5}))}

\* what Math.random gives the three tiers of one live generation; the draws
\* followed are those that give the three tiers the same seed
SeedDraws == {[i \in DOMAIN difficulties |-> s] : s \in MathRandom}

\* what an earlier session saved for emptyTubeCount
savedPuzzles(generate, emptyTubeCount) ==
    [version |-> 1, emptyTubeCount |-> emptyTubeCount,
     puzzles |-> generatedPuzzles(generate, emptyTubeCount,
                                  [i \in DOMAIN difficulties |-> <<32767, 65535>>])]

\* a saved set whose puzzles have no entry for difficulty d
lacking(stored, d) ==
    [stored EXCEPT !.puzzles = [k \in DOMAIN stored.puzzles \ {tierKey(d)} |->
                                   stored.puzzles[k]]]

\* no item, a text that is not JSON, an object that is not a StoredPuzzles, a
\* saved set, and a saved set without the tier 9
StorageInputs(generate) ==
    {None,
     Some([text |-> "garbage", value |-> <<>>]),
     Some(jsonStringify([version |-> 1])),
     Some(jsonStringify(savedPuzzles(generate, 2))),
     Some(jsonStringify(lacking(savedPuzzles(generate, 2), 9)))}

\* the page is loaded with some output config, puzzles config and localStorage,
\* in a browser where localStorage may throw on a read, on a write or on both
PageLoad ==
    /\ ~loaded
    /\ pc = "idle"
    /\ adapterPc = "idle"
    /\ validation = None
    /\ loaded' = TRUE
    /\ outputConfig' \in OutputConfigs
    /\ generated' = tierPuzzles({2, configuredEmptyTubes(outputConfig')})
    /\ puzzlesConfig' \in PuzzlesConfigs(generated')
    /\ storage' \in StorageInputs(generated')
    /\ storageAccess' \in [readable : BOOLEAN, writable : BOOLEAN]
    /\ UNCHANGED <<genVars, first, adapterVars, validation, cache, pregeneratePromise,
                   runs, awaited, firstEntries, settled, sceneVars>>

\* a run at the start of the promise chain
newRun ==
    [pc |-> "pending", emptyTubeCount |-> 0, fromConfig |-> None, tried |-> <<>>,
     seen |-> met(None, TRUE, TRUE), threw |-> FALSE]

\* pregeneratePuzzles(): _pregeneratePromise = getOutputConfigAsync().then(...)
Pregenerate ==
    /\ Len(runs) < MaxRuns
    /\ runs' = Append(runs, newRun)
    /\ pregeneratePromise' = Len(runs) + 1

\* pregeneratePuzzles() called from main.tsx or from App
PregenerateCall ==
    /\ loaded
    /\ Pregenerate
    /\ UNCHANGED <<genVars, first, adapterVars, validation, loaded, outputConfig,
                   puzzlesConfig, storage, storageAccess, cache, awaited, firstEntries,
                   settled, generated, sceneVars>>

\* waitForPregenerate(): the promise in flight, or that of a run it starts
waitForPregenerate ==
    IF pregeneratePromise # 0
    THEN /\ awaited' = awaited \cup {pregeneratePromise}
         /\ UNCHANGED <<runs, pregeneratePromise>>
    ELSE /\ Pregenerate
         /\ awaited' = awaited \cup {Len(runs) + 1}

\* a call of waitForPregenerate whose promise is awaited
WaitCall ==
    /\ loaded
    /\ waitForPregenerate
    /\ UNCHANGED <<genVars, first, adapterVars, validation, loaded, outputConfig,
                   puzzlesConfig, storage, storageAccess, cache, firstEntries, settled,
                   generated, sceneVars>>

\* the callback came to its end with f the outcome of pregenerateFrom, and the
\* promise of the run is settled
Filled(r, emptyTubeCount, fromConfig, f) ==
    /\ settled' = settled + 1
    /\ cache' = f.cache
    /\ storage' = f.storage
    /\ firstEntries' = [k \in DOMAIN f.cache |->
                           IF k \in DOMAIN firstEntries THEN firstEntries[k]
                           ELSE f.cache[k]]
    /\ runs' = [runs EXCEPT ![r] =
                   [@ EXCEPT !.pc = settle(f.threw),
                             !.emptyTubeCount = emptyTubeCount,
                             !.fromConfig = fromConfig, !.tried = f.tried,
                             !.seen = f.seen,
                             !.threw = f.threw]]

\* the callback once it has emptyTubeCount and fromConfig
Fetched(r, emptyTubeCount, fromConfig) ==
    \E seeds \in SeedDraws :
        \E f \in {pregenerateFrom(cache, storage, fromConfig, emptyTubeCount,
                                  storageAccess.readable, storageAccess.writable,
                                  generated, seeds)} :
            Filled(r, emptyTubeCount, fromConfig, f)

\* the callback of a run, as one step: its awaits read only what the page was
\* loaded with, and no await interrupts the rest
Fill(r) ==
    /\ r \in DOMAIN runs
    /\ runs[r].pc = "pending"
    /\ UNCHANGED <<genVars, first, adapterVars, validation, loaded, outputConfig,
                   puzzlesConfig, storageAccess, pregeneratePromise, awaited,
                   generated, sceneVars>>
    /\ Fetched(r, configuredEmptyTubes(outputConfig),
               loadPuzzlesConfig(puzzlesConfig, configuredEmptyTubes(outputConfig)))

RunFill == \E r \in 1..Len(runs) : Fill(r)

NextCache ==
    PageLoad \/ PregenerateCall \/ WaitCall \/ RunFill

SpecCache == Init /\ [][NextCache]_vars

\* the Preloader alone: waitForPregenerate starts the run whose promise it
\* hands out
NextPreload == PageLoad \/ WaitCall \/ RunFill

\* the event loop runs every continuation of a promise chain that is ready
SpecPreload == Init /\ [][NextPreload]_vars /\ WF_vars(RunFill)

(* ------------------------------------------------------------------ *)
(* Preloader.generatePuzzle: the puzzle handed to the Game scene       *)
(* ------------------------------------------------------------------ *)
\* Math.max(1, Math.min(10, getPersistentSelectedLevel()))
clampDifficulty(level) == Max(1, Min(10, level))

\* { puzzle, difficulty, emptyTubeCount } with puzzle generated live from the
\* seed Math.random gave
liveEntry(generate, difficulty, emptyTubeCount, s) ==
    cachedPuzzleData(puzzleOf(generate[<<difficulty, emptyTubeCount, s>>]),
                     difficulty, emptyTubeCount)

\* (variant: the cached entry is looked up under the default two empty tubes)
tryReturnDefaultKey(c, generate, difficulty, emptyTubeCount, s) ==
    IF getCachedPuzzle(c, difficulty, 2) # None
    THEN OrElse(getCachedPuzzle(c, difficulty, 2), <<>>)
    ELSE liveEntry(generate, difficulty, emptyTubeCount, s)

\* the end of the try block: the cached entry, or a puzzle generated live
tryReturn(c, generate, difficulty, emptyTubeCount, s) ==
    IF getCachedPuzzle(c, difficulty, emptyTubeCount) # None
    THEN OrElse(getCachedPuzzle(c, difficulty, emptyTubeCount), <<>>)
    ELSE liveEntry(generate, difficulty, emptyTubeCount, s)

\* the catch block: a puzzle generated live for two empty tubes
catchReturn(generate, level, s) == liveEntry(generate, clampDifficulty(level), 2, s)

\* setPersistentSelectedLevel(difficulty): the level-select buttons give 1, 5, 9,
\* and the level select is hidden at the click; 1 is the level to begin with
SelectLevel ==
    /\ loaded
    /\ preloadPc # "returned"
    /\ selectedLevel = 1
    /\ \E difficulty \in {5, 9} : selectedLevel' = difficulty
    /\ UNCHANGED <<genVars, first, adapterVars, validation, boardVars, cacheVars, preloadPc,
                   preloadPromise, actualDifficulty, preloadCatch, handed>>

\* generatePuzzle() up to its first await
PreloadCall ==
    /\ loaded
    /\ preloadPc = "idle"
    /\ waitForPregenerate
    /\ preloadPromise' = (IF pregeneratePromise # 0 THEN pregeneratePromise
                          ELSE Len(runs) + 1)
    /\ preloadPc' = "waiting"
    /\ UNCHANGED <<genVars, first, adapterVars, validation, boardVars, loaded, outputConfig,
                   puzzlesConfig, storage, storageAccess, cache, firstEntries, settled,
                   generated, selectedLevel, actualDifficulty, preloadCatch, handed>>

\* the catch block ran and generatePuzzle returned
Caught(s) ==
    /\ handed' = Some(catchReturn(generated, selectedLevel, s))
    /\ preloadCatch' = TRUE
    /\ preloadPc' = "returned"
    /\ UNCHANGED actualDifficulty

\* after await waitForPregenerate(): actualDifficulty, up to the second
\* await; a rejected promise or an exception raised here goes to the catch
PreloadSelected ==
    /\ preloadPc = "waiting"
    /\ runs[preloadPromise].pc \in {"resolved", "rejected"}
    /\ \E threw \in BOOLEAN, s \in MathRandom :
          IF threw \/ runs[preloadPromise].pc = "rejected"
          THEN Caught(s)
          ELSE /\ actualDifficulty' = clampDifficulty(selectedLevel)
               /\ preloadPc' = "configuring"
               /\ UNCHANGED <<preloadCatch, handed>>
    /\ UNCHANGED <<genVars, first, adapterVars, validation, boardVars, cacheVars, selectedLevel,
                   preloadPromise>>

\* after await getOutputConfigValueAsync(): the rest of the try block; an
\* exception raised here goes to the catch
PreloadReturn ==
    /\ preloadPc = "configuring"
    /\ \E threw \in BOOLEAN, s \in MathRandom :
          IF threw
          THEN Caught(s)
          ELSE /\ handed' = Some(tryReturn(cache, generated, actualDifficulty,
                                           configuredEmptyTubes(outputConfig), s))
               /\ preloadPc' = "returned"
               /\ UNCHANGED <<actualDifficulty, preloadCatch>>
    /\ UNCHANGED <<genVars, first, adapterVars, validation, boardVars, cacheVars, selectedLevel,
                   preloadPromise>>

\* a continuation of generatePuzzle, told by what it does to preloadPc
PreloadContinues ==
    \/ /\ preloadPc = "waiting"
       /\ runs[preloadPromise].pc \in {"resolved", "rejected"}
       /\ preloadPc' \in {"configuring", "returned"}
    \/ /\ preloadPc = "configuring"
       /\ preloadPc' = "returned"

\* the calls of pregeneratePuzzles() at startup: main.tsx and App's effect
StartupCalls == 2

\* pregeneratePuzzles() called at startup, before the Preloader scene is created
StartupCall ==
    /\ preloadPc = "idle"
    /\ Len(runs) < StartupCalls
    /\ PregenerateCall

\* the promise chain of a run coming to its end, told by what it does to settled
Settles ==
    /\ \E r \in 1..Len(runs) : runs[r].pc = "pending"
    /\ settled' = settled + 1

NextHandOver ==
    PageLoad \/ SelectLevel \/ StartupCall \/ PreloadCall \/ RunFill
    \/ PreloadSelected \/ PreloadReturn

\* the page from its load to the puzzle handed to the Game scene; the event
\* loop runs every continuation that is ready. The RunFill steps are the steps
\* of NextHandOver that are Settles steps, and the PreloadSelected and
\* PreloadReturn steps those that are PreloadContinues steps.
SpecHandOver ==
    Init /\ [][NextHandOver]_vars /\ WF_settled(Settles) /\ WF_preloadPc(PreloadContinues)

(* ------------------------------------------------------------------ *)
(* Board and Tube: the balls lists during play. A ball is an object,   *)
(* told from the others by its identity; the bottom of a tube is the   *)
(* first element of its list                                           *)
(* ------------------------------------------------------------------ *)
\* Tube.getTopColor(): None for an empty tube
getTopColor(balls) == IF Len(balls) = 0 THEN None ELSE Some(balls[Len(balls)].color)

\* the loop of getTopSameColorBalls, from index i downwards
RECURSIVE topSameColorFrom(_, _)
topSameColorFrom(balls, i) ==
    IF i >= 1 /\ balls[i].color = balls[Len(balls)].color
    THEN <<balls[i]>> \o topSameColorFrom(balls, i - 1)
    ELSE <<>>

\* Tube.getTopSameColorBalls(): the top ball first
getTopSameColorBalls(balls) ==
    IF Len(balls) = 0 THEN <<>> ELSE topSameColorFrom(balls, Len(balls))

isFull(balls) == Len(balls) >= TUBE_CAPACITY

isEmpty(balls) == Len(balls) = 0

\* Tube.removeBall(ball): indexOf, then splice(index, 1)
removeBall(balls, ball) ==
    IF \E i \in 1..Len(balls) : balls[i] = ball
    THEN SubSeq(balls, 1, (CHOOSE i \in 1..Len(balls) :
                              balls[i] = ball /\ \A j \in 1..(i - 1) : balls[j] # ball) - 1)
         \o SubSeq(balls, (CHOOSE i \in 1..Len(balls) :
                              balls[i] = ball /\ \A j \in 1..(i - 1) : balls[j] # ball) + 1,
                   Len(balls))
    ELSE balls

\* balls.splice(index, 0, ball), index counted from 0: a start beyond the end
\* of the array is the end of the array
spliceBall(balls, index, ball) ==
    SubSeq(balls, 1, Min(index, Len(balls))) \o <<ball>>
    \o SubSeq(balls, Min(index, Len(balls)) + 1, Len(balls))

\* Tube.checkCompletion(): the value of isCompleted after the call
checkCompletion(balls, completed) ==
    IF Len(balls) # TUBE_CAPACITY THEN completed
    ELSE IF \A i \in 1..Len(balls) : balls[i].color = balls[1].color THEN TRUE
    ELSE completed

\* (variant: the whole run is moved, whatever the space in the target)
tryMoveBallWholeRun(board, source, target) ==
    IF Len(getTopSameColorBalls(board[source])) = 0
    THEN [moved |-> FALSE, ballsToMove |-> <<>>]
    ELSE IF /\ ~isFull(board[target])
            /\ (isEmpty(board[target])
                \/ getTopColor(board[target])
                     = Some(getTopSameColorBalls(board[source])[1].color))
    THEN [moved |-> TRUE, ballsToMove |-> getTopSameColorBalls(board[source])]
    ELSE [moved |-> FALSE, ballsToMove |-> <<>>]

\* Board.tryMoveBall(source, target): what it returns, and the balls it sets moving
tryMoveBall(board, source, target) ==
    IF Len(getTopSameColorBalls(board[source])) = 0
    THEN [moved |-> FALSE, ballsToMove |-> <<>>]
    ELSE IF /\ ~isFull(board[target])
            /\ (isEmpty(board[target])
                \/ getTopColor(board[target])
                     = Some(getTopSameColorBalls(board[source])[1].color))
    THEN IF Min(Len(getTopSameColorBalls(board[source])),
                TUBE_CAPACITY - Len(board[target])) <= 0
         THEN [moved |-> FALSE, ballsToMove |-> <<>>]
         ELSE [moved |-> TRUE,
               ballsToMove |-> SubSeq(getTopSameColorBalls(board[source]), 1,
                                      Min(Len(getTopSameColorBalls(board[source])),
                                          TUBE_CAPACITY - Len(board[target])))]
    ELSE [moved |-> FALSE, ballsToMove |-> <<>>]

\* the tweens tryMoveBall adds, one chain per ball: ballIndexInTarget is
\* originalBallCount + index
moveTweens(ballsToMove, source, target, originalBallCount) ==
    [index \in 1..Len(ballsToMove) |->
        [ball |-> ballsToMove[index], source |-> source, target |-> target,
         ballIndexInTarget |-> originalBallCount + index - 1, phase |-> "delayed"]]

\* Board.hasAnyValidMove()
hasAnyValidMove(board, completed) ==
    \E source \in 1..Len(board) : \E target \in 1..Len(board) :
        /\ ~isEmpty(board[source]) /\ ~completed[source]
        /\ source # target /\ ~isFull(board[target]) /\ ~completed[target]
        /\ (isEmpty(board[target])
            \/ getTopColor(board[target]) = getTopColor(board[source]))

\* initializeBallsWithPuzzle: a new Ball per colour of the puzzle's tubes, added
\* with addBall, which takes no ball beyond the capacity
boardOfPuzzle(tubeContents) ==
    [t \in 1..TUBE_COUNT |->
        IF t <= Len(tubeContents)
        THEN [b \in 1..Min(Len(tubeContents[t]), TUBE_CAPACITY) |->
                 [id |-> t * TUBE_CAPACITY + b, color |-> tubeContents[t][b]]]
        ELSE <<>>]

\* how many clicks are followed
MaxClicks == 4

\* the tubes the player clicks are the first MaxClickedTubes
MaxClickedTubes == 4

\* the puzzle the board is played from: six blues under a red (one place left);
\* blue, red, red; blue, red; the other tubes empty
PlayedPuzzles ==
    {<<Repeat("blue", TUBE_CAPACITY - 2) \o <<"red">>, <<"blue", "red", "red">>,
       <<"blue", "red">>>>}

\* new Board(scene, puzzle, difficulty, emptyTubeCount)
CreateBoard ==
    /\ boardTubes = <<>>
    /\ ~loaded
    /\ pc = "idle"
    /\ adapterPc = "idle"
    /\ validation = None
    /\ \E puzzle \in PlayedPuzzles : boardTubes' = boardOfPuzzle(puzzle)
    /\ isCompleted' = [t \in 1..TUBE_COUNT |-> FALSE]
    /\ isGameActive' = TRUE
    /\ UNCHANGED <<selectedTube, jumpStepCount, tweens, deadlockDue, clickCount, lastClick>>
    /\ UNCHANGED <<genVars, first, adapterVars, validation, cacheVars, preloadVars>>

\* the tube selected after selectTube(tube), called when the tube can be selected
selectIfBalls(board, completed, tube, selected) ==
    IF ~isEmpty(board[tube]) /\ ~completed[tube] THEN tube ELSE selected

\* Board.handleTubeClick(tube)
HandleTubeClick(tube) ==
    /\ isGameActive
    /\ clickCount < MaxClicks
    /\ clickCount' = clickCount + 1
    /\ lastClick' = tube
    /\ IF selectedTube = 0
       THEN /\ selectedTube' = selectIfBalls(boardTubes, isCompleted, tube, 0)
            /\ UNCHANGED <<jumpStepCount, tweens>>
       ELSE IF selectedTube = tube
       THEN /\ selectedTube' = 0
            /\ UNCHANGED <<jumpStepCount, tweens>>
       ELSE IF tryMoveBall(boardTubes, selectedTube, tube).moved
       THEN /\ selectedTube' = 0
            /\ tweens' = Append(tweens,
                                moveTweens(tryMoveBall(boardTubes, selectedTube,
                                                       tube).ballsToMove,
                                           selectedTube, tube, Len(boardTubes[tube])))
            /\ jumpStepCount' = jumpStepCount + 1
       ELSE /\ selectedTube' = selectIfBalls(boardTubes, isCompleted, tube, 0)
            /\ UNCHANGED <<jumpStepCount, tweens>>
    /\ UNCHANGED <<boardTubes, isCompleted, isGameActive, deadlockDue>>
    /\ UNCHANGED <<genVars, first, adapterVars, validation, cacheVars, preloadVars>>

Click == \E tube \in 1..MaxClickedTubes : HandleTubeClick(tube)

\* the tweens with the chain of ball index of move m in the given phase; a move
\* whose chains have all ended is dropped
advanced(m, index, phase) ==
    IF \A i \in 1..Len(tweens[m]) : (IF i = index THEN phase ELSE tweens[m][i].phase) = "done"
    THEN SubSeq(tweens, 1, m - 1) \o SubSeq(tweens, m + 1, Len(tweens))
    ELSE [tweens EXCEPT ![m][index].phase = phase]

\* onStart of the rise of a ball: source.removeBall(ball); the rises of a move
\* start in the order of their delays
OnStart(m, index) ==
    /\ tweens[m][index].phase = "delayed"
    /\ \A i \in 1..(index - 1) : tweens[m][i].phase # "delayed"
    /\ boardTubes' = [boardTubes EXCEPT ![tweens[m][index].source] =
                         removeBall(@, tweens[m][index].ball)]
    /\ tweens' = advanced(m, index, "flying")
    /\ UNCHANGED <<isCompleted, selectedTube, isGameActive, jumpStepCount, deadlockDue,
                   clickCount, lastClick>>
    /\ UNCHANGED <<genVars, first, adapterVars, validation, cacheVars, preloadVars>>

\* onComplete of the drop of a ball: target.balls.splice(ballIndexInTarget, 0, ball)
OnLanded(m, index) ==
    /\ tweens[m][index].phase = "flying"
    /\ \A i \in 1..(index - 1) : tweens[m][i].phase \in {"landed", "done"}
    /\ boardTubes' = [boardTubes EXCEPT ![tweens[m][index].target] =
                         spliceBall(@, tweens[m][index].ballIndexInTarget,
                                    tweens[m][index].ball)]
    /\ tweens' = advanced(m, index, "landed")
    /\ UNCHANGED <<isCompleted, selectedTube, isGameActive, jumpStepCount, deadlockDue,
                   clickCount, lastClick>>
    /\ UNCHANGED <<genVars, first, adapterVars, validation, cacheVars, preloadVars>>

\* checkCompletionAndWin, after the water has risen: target.checkCompletion()
\* and checkWinCondition(), which ends the game or asks for checkDeadlock
OnRisen(m, index) ==
    /\ tweens[m][index].phase = "landed"
    /\ \A i \in 1..(index - 1) : tweens[m][i].phase = "done"
    /\ isCompleted' = [isCompleted EXCEPT ![tweens[m][index].target] =
                          checkCompletion(boardTubes[tweens[m][index].target], @)]
    /\ IF \A t \in 1..Len(boardTubes) : isEmpty(boardTubes[t]) \/ isCompleted'[t]
       THEN isGameActive' = FALSE /\ UNCHANGED deadlockDue
       ELSE deadlockDue' = TRUE /\ UNCHANGED isGameActive
    /\ tweens' = advanced(m, index, "done")
    /\ UNCHANGED <<boardTubes, selectedTube, jumpStepCount, clickCount, lastClick>>
    /\ UNCHANGED <<genVars, first, adapterVars, validation, cacheVars, preloadVars>>

\* the callbacks of the animations in flight
Callback ==
    \E m \in 1..Len(tweens) : \E index \in 1..Len(tweens[m]) :
        OnStart(m, index) \/ OnLanded(m, index) \/ OnRisen(m, index)

\* Board.checkDeadlock(), called a frame after checkWinCondition
CheckDeadlock ==
    /\ deadlockDue
    /\ deadlockDue' = FALSE
    /\ isGameActive' = (isGameActive /\ hasAnyValidMove(boardTubes, isCompleted))
    /\ UNCHANGED <<boardTubes, isCompleted, selectedTube, jumpStepCount, tweens,
                   clickCount, lastClick>>
    /\ UNCHANGED <<genVars, first, adapterVars, validation, cacheVars, preloadVars>>

NextBoard == CreateBoard \/ Click \/ Callback \/ CheckDeadlock

SpecBoard == Init /\ [][NextBoard]_vars

(* ================================================================== *)
(* Properties                                                          *)
(* ================================================================== *)
\* the PuzzleResult returned (meaningful when result # None)
TheResult == CHOOSE r \in result : TRUE

TheAdapterResult == CHOOSE r \in adapterResult : TRUE

TheFirst == CHOOSE f \in first : TRUE

TheAdapterFirst == CHOOSE f \in adapterFirst : TRUE

Clamp(x, lo, hi) == IF x < lo THEN lo ELSE IF x > hi THEN hi ELSE x

\* the <<tube, slot>> pairs that hold a ball
Positions(tubes) == UNION {{<<k, b>> : b \in 1..Len(tubes[k])} : k \in 1..Len(tubes)}

CountOf(c, tubes) == Cardinality({p \in Positions(tubes) : tubes[p[1]][p[2]] = c})

TotalBalls(tubes) == Cardinality(Positions(tubes))

ColoursOf(tubes) == {tubes[p[1]][p[2]] : p \in Positions(tubes)}

(* ---- the pour game on a board, for solvability ---- *)
\* the board after the pour from tube i onto tube j (pourOnce with its default maxPour)
pourBoard(board, r, i, j) == [board EXCEPT ![i] = r.from, ![j] = r.to]

legalPours(board, tubeSize) ==
    {pourBoard(board, pourOnce(board[p[1]], board[p[2]], tubeSize, 8), p[1], p[2]) :
        p \in {q \in (1..Len(board)) \X (1..Len(board)) :
                  q[1] # q[2] /\ canPour(board[q[1]], board[q[2]], tubeSize)}}

\* every non-empty tube is full and holds a single colour
Sorted(board, tubeSize) ==
    \A k \in 1..Len(board) :
        Len(board[k]) = 0 \/
        (Len(board[k]) = tubeSize /\ Cardinality(Distinct(board[k])) = 1)

RECURSIVE reachableBoards(_, _, _)
reachableBoards(frontier, seen, tubeSize) ==
    IF frontier = {} THEN seen
    ELSE reachableBoards((UNION {legalPours(b, tubeSize) : b \in frontier}) \ seen,
                         seen \cup UNION {legalPours(b, tubeSize) : b \in frontier},
                         tubeSize)

Solvable(board, tubeSize) ==
    \E b \in reachableBoards({board}, {board}, tubeSize) : Sorted(b, tubeSize)

\* C1: every board createPuzzle returns can be sorted by a finite sequence of
\* legal pours (every non-empty tube full and of one colour).
Solvability == pc = "done" => Solvable(TheResult.tubes, config.tubeSize)

BallConservation ==
    pc = "done" =>
        /\ TotalBalls(TheResult.tubes) = config.tubeCount * config.tubeSize
        /\ TotalBalls(TheResult.tubes) = SumSeq(TheResult.perColorTubes, 1) * config.tubeSize

BallConservationWitness ==
    /\ pc = "done"
    /\ attemptCount > 1
    /\ attemptCount < maxShuffleAttempts
    /\ config.tubeCount > 1
    /\ config.emptyTubeCount # None

\* C4: every colour index c < colorCount occurs exactly perColorTubes[c] * tubeSize
\* times in the returned tubes, and no other value occurs.
PerColourMultiple ==
    pc = "done" =>
        /\ \A c \in 0..(config.colorCount - 1) :
              CountOf(c, TheResult.tubes) = TheResult.perColorTubes[c + 1] * config.tubeSize
        /\ ColoursOf(TheResult.tubes) \subseteq 0..(config.colorCount - 1)

PerColourMultipleWitness ==
    /\ pc = "done"
    /\ config.colorCount = 3
    /\ config.tubeSize > 1
    /\ Cardinality(ColoursOf(TheResult.tubes)) = 3
    /\ \E k \in 1..config.tubeCount : Cardinality(Distinct(TheResult.tubes[k])) > 1

\* C5: createPuzzle returns tubeCount + emptyTubeCount tubes (emptyTubeCount
\* defaults to 0); the first tubeCount hold tubeSize balls, the others are empty.
BoardLayout ==
    pc = "done" =>
        /\ Len(TheResult.tubes) = config.tubeCount + OrElse(config.emptyTubeCount, 0)
        /\ \A k \in 1..Len(TheResult.tubes) :
              Len(TheResult.tubes[k]) = IF k <= config.tubeCount THEN config.tubeSize ELSE 0

BoardLayoutWitness ==
    /\ pc = "done"
    /\ config.emptyTubeCount # None
    /\ OrElse(config.emptyTubeCount, 0) > 0
    /\ config.tubeCount > 1

\* C6: createPuzzle raises an error and returns no puzzle for every config with
\* a non-positive tubeSize, tubeCount or colorCount, with a supplied perColorTubes
\* of wrong length, wrong sum or (zero tubes disallowed) an entry <= 0, or with
\* no perColorTubes, zero tubes disallowed and tubeCount < colorCount.
ConfigurationError(cfg) ==
    \/ cfg.tubeSize <= 0
    \/ cfg.tubeCount <= 0
    \/ cfg.colorCount <= 0
    \/ /\ cfg.perColorTubes # None
       /\ \/ Len(OrElse(cfg.perColorTubes, <<>>)) # cfg.colorCount
          \/ SumSeq(OrElse(cfg.perColorTubes, <<>>), 1) # cfg.tubeCount
          \/ /\ ~OrElse(cfg.allowZeroTubesForColor, FALSE)
             /\ \E i \in 1..Len(OrElse(cfg.perColorTubes, <<>>)) :
                   OrElse(cfg.perColorTubes, <<>>)[i] <= 0
    \/ /\ cfg.perColorTubes = None
       /\ ~OrElse(cfg.allowZeroTubesForColor, FALSE)
       /\ cfg.tubeCount < cfg.colorCount

FailFast ==
    (pc # "idle" /\ ConfigurationError(config))
        => (pc = "error" /\ error # "" /\ result = None /\ attemptCount = 0)

FailFastWitness ==
    /\ pc = "error"
    /\ config.tubeSize > 0
    /\ config.perColorTubes # None
    /\ error = "perColorTubes contains <= 0 but allowZero=false"

AdapterBoardShape ==
    adapterPc = "done" =>
        /\ Len(TheAdapterResult.tubes) = 14
        /\ \A k \in 1..14 :
              Len(TheAdapterResult.tubes[k]) =
                  IF k <= 14 - Clamp(OrElse(adapterConfig.emptyTubeCount, 2), 1, 6)
                  THEN 8 ELSE 0

AdapterBoardShapeWitness ==
    /\ adapterPc = "done"
    /\ adapterConfig.emptyTubeCount = Some(MaxAdapterEmpty)
    /\ Len(TheAdapterResult.tubes[9]) = 0
    /\ Len(TheAdapterResult.tubes[8]) = 8

AdapterNeverFails ==
    adapterPc # "idle" =>
        /\ ~ConfigurationError(config)
        /\ pc # "error"
        /\ error = ""
        /\ adapterPc # "error"
        /\ adapterPc = "done" => adapterResult # None

AdapterNeverFailsWitness ==
    /\ adapterPc = "done"
    /\ adapterConfig.difficulty > 10
    /\ adapterConfig.emptyTubeCount = Some(MaxAdapterEmpty)
    /\ adapterResult # None

(* ---- validatePuzzle ---- *)
TheValidation == CHOOSE v \in validation : TRUE

\* the tubes whose length is neither 0 nor 8
BadTubes(tubes) == {k \in 1..Len(tubes) : Len(tubes[k]) # 0 /\ Len(tubes[k]) # 8}

\* the number of balls of colour c in the tubes of length 8
FullTubeTotal(c, tubes) ==
    Cardinality({p \in Positions(tubes) : Len(tubes[p[1]]) = 8 /\ tubes[p[1]][p[2]] = c})

\* the colours whose total over the full tubes is not a multiple of 8
BadColours(tubes) == {c \in ColoursOf(tubes) : FullTubeTotal(c, tubes) % 8 # 0}

EmptyTubes(tubes) == {k \in 1..Len(tubes) : Len(tubes[k]) = 0}

FourChecksHold(tubes) ==
    /\ Len(tubes) = 14
    /\ BadTubes(tubes) = {}
    /\ Cardinality(EmptyTubes(tubes)) = 2
    /\ BadColours(tubes) = {}

\* the messages a board earns: one for a wrong tube count, one for each tube of a
\* wrong length, one for a wrong number of empty tubes, one for each colour whose
\* total is off
MessagesDue(tubes) ==
    (IF Len(tubes) # 14 THEN 1 ELSE 0)
    + Cardinality(BadTubes(tubes))
    + (IF Cardinality(EmptyTubes(tubes)) # 2 THEN 1 ELSE 0)
    + Cardinality(BadColours(tubes))

ValidatorEmptyTubes ==
    (validation # None /\ adapterPc # "idle") =>
        /\ TheValidation.result.valid
               = (Clamp(OrElse(adapterConfig.emptyTubeCount, 2), 1, 6) = 2)
        /\ ~TheValidation.result.valid =>
               TheValidation.result.errors
                   = <<validationError("emptyCount", "",
                                       Clamp(OrElse(adapterConfig.emptyTubeCount, 2), 1, 6))>>

ValidatorEmptyTubesWitness ==
    /\ validation # None
    /\ adapterPc = "done"
    /\ adapterConfig.emptyTubeCount = Some(4)
    /\ ~TheValidation.result.valid
    /\ Len(TheValidation.result.errors) = 1

\* the runs whose promise is not settled yet
RunsInFlight == {r \in 1..Len(runs) : runs[r].pc = "pending"}

\* the runs that came to their end
RunsDone == {r \in 1..Len(runs) : runs[r].pc \in {"resolved", "rejected"}}

\* C13: however often pregeneratePuzzles and waitForPregenerate are called
\* before a pregeneration completes, at most one run is in flight, and the
\* promise every caller holds is that run's.
SinglePregeneration ==
    /\ Cardinality(RunsInFlight) <= 1
    /\ \A r \in RunsInFlight : pregeneratePromise = r
    /\ \A p \in awaited : RunsInFlight \subseteq {p}

\* the puzzles config is a StoredPuzzles for emptyTubeCount
ConfigUsable(emptyTubeCount) ==
    /\ puzzlesConfig # None
    /\ OrElse(puzzlesConfig, <<>>).emptyTubeCount = emptyTubeCount

\* the localStorage item a run saw could be read and parsed, and is a
\* StoredPuzzles for emptyTubeCount
StorageUsable(seen, emptyTubeCount) ==
    /\ seen.readable
    /\ seen.storage # None
    /\ OrElse(seen.storage, <<>>).text = "json"
    /\ DOMAIN OrElse(seen.storage, <<>>).value = {"version", "emptyTubeCount", "puzzles"}
    /\ OrElse(seen.storage, <<>>).value.emptyTubeCount = emptyTubeCount

\* C14: a run consults the puzzles config first; it reads localStorage exactly
\* when the config gave nothing usable for its emptyTubeCount, and generates
\* exactly when localStorage gave nothing usable either (absent, unreadable,
\* unparsable, or stored for another emptyTubeCount).
FallbackOrder ==
    \A r \in RunsDone :
        /\ runs[r].tried \in {<<"config">>, <<"config", "storage">>,
                              <<"config", "storage", "generate">>}
        /\ (Len(runs[r].tried) >= 2) = ~ConfigUsable(runs[r].emptyTubeCount)
        /\ (Len(runs[r].tried) = 3)
               = (/\ ~ConfigUsable(runs[r].emptyTubeCount)
                  /\ ~StorageUsable(runs[r].seen, runs[r].emptyTubeCount))

FallbackOrderWitness ==
    \E r \in RunsDone, q \in RunsDone :
        /\ runs[r].tried = <<"config", "storage", "generate">>
        /\ runs[r].seen.storage # None
        /\ runs[r].seen.readable
        /\ runs[q].tried = <<"config", "storage">>

\* the tubes of the entry getCachedPuzzle gives for difficulty d
CachedTubes(d, emptyTubeCount) ==
    OrElse(getCachedPuzzle(cache, d, emptyTubeCount), [puzzle |-> [tubes |-> <<>>]]).puzzle.tubes

\* C15: with no puzzles config, once a run that found no localStorage item has
\* completed, getCachedPuzzle(d, e) gives an entry for d = 1, 5 and 9, with e
\* the clamped configured emptyTubeCount; for e = 2 its tubes pass validatePuzzle.
PregenerationFills ==
    \A r \in RunsDone :
        (puzzlesConfig = None /\ runs[r].seen.storage = None) =>
            /\ runs[r].emptyTubeCount = Clamp(OrElse(outputConfig, 2), 1, 6)
            /\ \A d \in {1, 5, 9} :
                  /\ getCachedPuzzle(cache, d, runs[r].emptyTubeCount) # None
                  /\ runs[r].emptyTubeCount = 2 =>
                         validatePuzzle(CachedTubes(d, 2)).valid

PregenerationFillsWitness ==
    /\ puzzlesConfig = None
    /\ outputConfig = None
    /\ Len(runs) = 1
    /\ runs[1].pc = "resolved"
    /\ runs[1].seen.storage = None
    /\ DOMAIN cache = {<<1, 2>>, <<5, 2>>, <<9, 2>>}
    /\ Len(CachedTubes(9, 2)) = 14

\* a run met an I/O failure: localStorage could not be read, its item could
\* not be parsed, or it could not be written
MetFailure(r) ==
    \/ ~runs[r].seen.readable
    \/ runs[r].seen.storage = Some([text |-> "garbage", value |-> <<>>])
    \/ ~runs[r].seen.writable

\* the run went on to the source after the ones that gave nothing: no
\* exception left the callback, and with neither config nor storage usable the
\* three tiers were generated and cached
FellThrough(r) ==
    /\ ~runs[r].threw
    /\ (~ConfigUsable(runs[r].emptyTubeCount)
           /\ ~StorageUsable(runs[r].seen, runs[r].emptyTubeCount)) =>
          /\ runs[r].tried = <<"config", "storage", "generate">>
          /\ \A d \in {1, 5, 9} :
                 getCachedPuzzle(cache, d, runs[r].emptyTubeCount) # None

EntriesImmutable ==
    \A k \in DOMAIN firstEntries :
        getCachedPuzzle(cache, k[1], k[2]) = Some(firstEntries[k])

\* the localStorage item a run saw is a StoredPuzzles of an earlier session
\* that was created for another emptyTubeCount
StoredForOther(seen, emptyTubeCount) ==
    /\ seen.readable
    /\ seen.storage # None
    /\ OrElse(seen.storage, <<>>).text = "json"
    /\ DOMAIN OrElse(seen.storage, <<>>).value = {"version", "emptyTubeCount", "puzzles"}
    /\ OrElse(seen.storage, <<>>).value.emptyTubeCount # emptyTubeCount

\* the number of empty tubes of a board
EmptyTubesOf(tubes) == Cardinality({i \in DOMAIN tubes : tubes[i] = <<>>})

\* C18: when the configured emptyTubeCount is not the one the stored entries
\* were created for, none of them is taken over: the run goes through the
\* whole chain to generation, getCachedPuzzle gives only entries created for
\* the configured emptyTubeCount, and the set saved replaces the old one.
WholeCacheInvalidation ==
    /\ \A k \in DOMAIN cache :
          /\ k[2] = configuredEmptyTubes(outputConfig)
          /\ cache[k].emptyTubeCount = k[2]
          /\ cache[k].difficulty = k[1]
          /\ EmptyTubesOf(cache[k].puzzle.tubes) = k[2]
    /\ \A r \in RunsDone :
          StoredForOther(runs[r].seen, runs[r].emptyTubeCount) =>
              /\ runs[r].tried = <<"config", "storage", "generate">>
              /\ \A d \in {1, 5, 9} :
                    getCachedPuzzle(cache, d, runs[r].emptyTubeCount) # None
              /\ \A d \in {1, 5, 9} :
                    getCachedPuzzle(cache, d,
                        OrElse(runs[r].seen.storage, <<>>).value.emptyTubeCount) = None
              /\ runs[r].seen.writable =>
                    /\ StorageUsable(met(storage, TRUE, TRUE), runs[r].emptyTubeCount)
                    /\ DOMAIN OrElse(storage, <<>>).value.puzzles = {"1", "5", "9"}

WholeCacheInvalidationWitness ==
    \E r \in RunsDone :
        /\ outputConfig = Some(3)
        /\ runs[r].emptyTubeCount = 3
        /\ StoredForOther(runs[r].seen, 3)
        /\ OrElse(runs[r].seen.storage, <<>>).value.emptyTubeCount = 2
        /\ runs[r].seen.writable
        /\ DOMAIN cache = {<<1, 3>>, <<5, 3>>, <<9, 3>>}
        /\ OrElse(storage, <<>>).value.emptyTubeCount = 3

\* the named colours of a usedColors list
NamedColours(usedColors) == {usedColors[i] : i \in DOMAIN usedColors}

\* the colours of usedColors are pairwise distinct
DistinctColours(usedColors) ==
    \A i, j \in DOMAIN usedColors : usedColors[i] = usedColors[j] => i = j

\* every ball of numeric colour i in the generator's tubes is shown as
\* usedColors[i]
ShownByIndex(numeric, named, usedColors) ==
    /\ Len(named) = Len(numeric)
    /\ \A k \in DOMAIN numeric :
          /\ Len(named[k]) = Len(numeric[k])
          /\ \A b \in DOMAIN numeric[k] :
                named[k][b] = usedColors[numeric[k][b] + 1]

\* C19: usedColors is the list of the colours actually used: its colours are
\* exactly the named colours on the board, they are pairwise distinct, and
\* numeric colour i of the generator is shown as usedColors[i].
UsedColorsAreUsed ==
    adapterPc = "done" =>
        /\ NamedColours(TheAdapterResult.usedColors) = ColoursOf(TheAdapterResult.tubes)
        /\ DistinctColours(TheAdapterResult.usedColors)
        /\ ShownByIndex(TheResult.tubes, TheAdapterResult.tubes,
                        TheAdapterResult.usedColors)

\* the diversity constraint can never be met: a tube has fewer places than
\* minColorsPerTube
Hopeless(cfg) == cfg.tubeCount > 0 /\ cfg.tubeSize < Min(3, cfg.colorCount)

\* C20: the retry loop of createPuzzle makes at most maxShuffleAttempts
\* attempts and ends, also for a config whose diversity constraint can never
\* be met, and createPuzzle then returns a puzzle.
RetryLoopTerminates ==
    /\ [](attemptCount <= maxShuffleAttempts)
    /\ [](pc = "done" =>
            /\ result # None
            /\ attemptCount >= 1
            /\ colorDiversityMet \/ attemptCount = maxShuffleAttempts
            /\ Hopeless(config) => ~colorDiversityMet)
    /\ (pc = "shuffle") ~> (pc = "done" /\ result # None)

RetryLoopTerminatesWitness ==
    /\ pc = "done"
    /\ Hopeless(config)
    /\ attemptCount = maxShuffleAttempts
    /\ ~colorDiversityMet
    /\ result # None
    /\ Len(TheResult.tubes) = config.tubeCount + OrElse(config.emptyTubeCount, 0)

\* every one of the first n tubes holds at least min(3, colorCount) colours
EveryTubeDiverse(tubes, n, colorCount) ==
    \A k \in 1..n :
        Cardinality({tubes[k][b] : b \in DOMAIN tubes[k]}) >= Min(3, colorCount)

\* C21: createPuzzle returns the arrangement of the first attempt in which
\* every filled tube holds at least min(3, colorCount) colours: it makes no
\* attempt after such an arrangement, and it returns an arrangement without
\* that diversity only as the 100th attempt, with no error.
DiversityAcceptance ==
    /\ [](pc = "done" =>
            /\ error = ""
            /\ SubSeq(TheResult.tubes, 1, config.tubeCount) = SubSeq(finalTubes, 1, config.tubeCount)
            /\ attemptCount \in 1..maxShuffleAttempts
            /\ ~EveryTubeDiverse(TheResult.tubes, config.tubeCount, config.colorCount)
                  => attemptCount = maxShuffleAttempts)
    /\ [][(pc = "shuffle" /\ attemptCount >= 1 /\ attemptCount' = attemptCount + 1)
             => ~EveryTubeDiverse(finalTubes, config.tubeCount, config.colorCount)]_vars
    /\ [][(pc = "shuffle" /\ pc' = "done")
             => /\ SubSeq(finalTubes', 1, config.tubeCount) = finalTubes
                /\ attemptCount' = attemptCount]_vars

DiversityAcceptanceWitness ==
    /\ pc = "done"
    /\ attemptCount \in 2..(maxShuffleAttempts - 1)
    /\ config.colorCount = 3
    /\ config.tubeCount >= 2
    /\ EveryTubeDiverse(TheResult.tubes, config.tubeCount, config.colorCount)

\* createPuzzle was called with a config that leaves the distribution to
\* autoDistributeTubes, and autoDistributeTubes returned
PlannerReturned ==
    /\ pc # "idle"
    /\ config.perColorTubes = None
    /\ config.tubeSize > 0 /\ config.tubeCount > 0 /\ config.colorCount > 0
    /\ OrElse(config.allowZeroTubesForColor, FALSE) \/ config.tubeCount >= config.colorCount

\* C22: what autoDistributeTubes returns has colorCount entries that sum to
\* tubeCount; every entry is at least 1 when zero tubes are not allowed, and
\* at least 0 when they are.
PlannerOutput ==
    PlannerReturned =>
        /\ Len(distribution) = config.colorCount
        /\ SumSeq(distribution, 1) = config.tubeCount
        /\ \A i \in 1..Len(distribution) :
              distribution[i] >= (IF OrElse(config.allowZeroTubesForColor, FALSE)
                                  THEN 0 ELSE 1)

PlannerOutputWitness ==
    /\ PlannerReturned
    /\ config.allowZeroTubesForColor = Some(TRUE)
    /\ config.colorCount = 3
    /\ config.tubeCount = 3
    /\ \E i, j \in 1..3 : distribution[i] = 0 /\ distribution[j] = 2

\* C23: perColorTubes of the adapter's result has min(clamp(difficulty + 2, 3,
\* 12), filledTubes) entries summing to filledTubes, each at least 1; entry i
\* (from 0) is floor(filledTubes / colours) + 1 for i < filledTubes mod colours
\* and floor(filledTubes / colours) otherwise, whatever the seed.
AdapterDistribution ==
    adapterPc = "done" =>
        LET filled == 14 - Clamp(OrElse(adapterConfig.emptyTubeCount, 2), 1, 6)
            colours == Min(Clamp(adapterConfig.difficulty + 2, 3, 12), filled)
            p == TheAdapterResult.perColorTubes
        IN  /\ Len(p) = colours
            /\ SumSeq(p, 1) = filled
            /\ \A i \in 1..Len(p) :
                  /\ p[i] >= 1
                  /\ p[i] = (filled \div colours)
                              + (IF i - 1 < filled % colours THEN 1 ELSE 0)

AdapterDistributionWitness ==
    /\ adapterPc = "done"
    /\ adapterConfig.difficulty = 3
    /\ adapterConfig.emptyTubeCount = Some(1)
    /\ adapterConfig.seed.kind = "undefined"
    /\ TheAdapterResult.perColorTubes = <<3, 3, 3, 2, 2>>

\* the text saveToStorage writes for the entries the cache holds for
\* emptyTubeCount
SavedFromCache(emptyTubeCount) ==
    jsonStringify([version |-> 1, emptyTubeCount |-> emptyTubeCount,
                   puzzles |-> [k \in {tierKey(d) : d \in {1, 5, 9}} |->
                                   cache[cacheKey(CHOOSE d \in {1, 5, 9} : tierKey(d) = k,
                                                  emptyTubeCount)]]])

TheHanded == CHOOSE h \in handed : TRUE

\* the puzzles a live generation for difficulty and emptyTubeCount can give
LiveEntries(difficulty, emptyTubeCount) ==
    {cachedPuzzleData(puzzleOf(generated[<<difficulty, emptyTubeCount, s>>]),
                      difficulty, emptyTubeCount) : s \in MathRandom}

\* C25: generatePuzzle goes on only once the pregeneration promise is settled,
\* and always returns a puzzle: the cached entry for the clamped selected
\* difficulty and the clamped emptyTubeCount when there is one, else a puzzle
\* generated live for those values; through its catch block, a puzzle
\* generated live for the selected difficulty and two empty tubes.
PreloaderHandsPuzzle ==
    /\ [](preloadPc \in {"configuring", "returned"} =>
            runs[preloadPromise].pc = "resolved" \/ preloadCatch)
    /\ [](preloadPc = "returned" =>
            /\ handed # None
            /\ Len(TheHanded.puzzle.tubes) = 14
            /\ IF preloadCatch
               THEN TheHanded \in LiveEntries(clampDifficulty(selectedLevel), 2)
               ELSE /\ TheHanded.difficulty = actualDifficulty
                    /\ TheHanded.emptyTubeCount = Clamp(OrElse(outputConfig, 2), 1, 6))
    /\ [][(preloadPc = "waiting" /\ preloadPc' = "configuring")
             => actualDifficulty' = Clamp(selectedLevel, 1, 10)]_vars
    /\ [][(preloadPc = "configuring" /\ preloadPc' = "returned" /\ ~preloadCatch')
             => IF <<actualDifficulty, Clamp(OrElse(outputConfig, 2), 1, 6)>> \in DOMAIN cache
                THEN handed' = Some(cache[<<actualDifficulty,
                                            Clamp(OrElse(outputConfig, 2), 1, 6)>>])
                ELSE TheHanded' \in LiveEntries(actualDifficulty,
                                                Clamp(OrElse(outputConfig, 2), 1, 6))]_vars
    /\ (preloadPc = "waiting") ~> (preloadPc = "returned" /\ handed # None)

PreloaderHandsPuzzleWitness ==
    /\ preloadPc = "returned"
    /\ ~preloadCatch
    /\ outputConfig = Some(3)
    /\ selectedLevel = 9
    /\ actualDifficulty = 9
    /\ Len(runs) = 2
    /\ handed = Some(cache[<<9, 3>>])
    /\ Len(TheHanded.puzzle.tubes) = 14

\* the fully sorted board of the call: each colour in whole tubes, then the
\* empty tubes
SortedBoard ==
    appendEmptyTubes(solvedTubes(distribution, 1, config.colorCount, config.tubeSize),
                     Len(TheResult.tubes) - config.tubeCount)

\* C26: every board createPuzzle returns is reachable from the fully sorted
\* board of the call by legal pours alone.
ReachableFromSorted ==
    (pc = "done" /\ error = "") =>
        TheResult.tubes \in reachableBoards({SortedBoard}, {SortedBoard}, config.tubeSize)

\* C27: a config that passes the entry checks of createPuzzle yields a puzzle:
\* the "Internal mismatch" error is never thrown, whether the distribution is
\* planned or supplied (with or without allowZeroTubesForColor).
MismatchUnreachable ==
    error # "Internal mismatch: tube array incorrect length"

\* C28: whichever source a pregeneration run ended in, once it has completed
\* getCachedPuzzle gives an entry for the difficulties 1, 5 and 9 under the
\* run's emptyTubeCount, also when the puzzles config or the saved set it used
\* lacks a tier.
EveryTierCached ==
    \A r \in RunsDone :
        \A d \in {1, 5, 9} : getCachedPuzzle(cache, d, runs[r].emptyTubeCount) # None

\* (the same for the pages whose puzzles config and saved set hold every tier)
EveryTierCachedFromWholeSets ==
    (/\ loaded
     /\ puzzlesConfig # Some(builtConfig(generated, 2, {1, 5}))
     /\ storage # Some(jsonStringify(lacking(savedPuzzles(generated, 2), 9)))
     /\ \A r \in RunsDone :
           runs[r].seen.storage # Some(jsonStringify(lacking(savedPuzzles(generated, 2), 9))))
        => EveryTierCached

\* the balls of the tubes' lists, with the tube and the place of each
BallPlaces ==
    {<<t, i>> : t \in 1..Len(boardTubes), i \in 1..TUBE_CAPACITY + TUBE_CAPACITY} \cap
    UNION {{<<t, i>> : i \in 1..Len(boardTubes[t])} : t \in 1..Len(boardTubes)}

\* C30: during play, with clicks interleaved in any order with the start and
\* landing callbacks of the moves in flight, no tube's ball list holds more
\* than 8 balls, no ball is in two places, and once no move is in flight the
\* lists hold the balls the board was created with.
CapacityDuringPlay ==
    /\ \A t \in 1..Len(boardTubes) : Len(boardTubes[t]) <= TUBE_CAPACITY
    /\ \A p \in BallPlaces : \A q \in BallPlaces :
          boardTubes[p[1]][p[2]] = boardTubes[q[1]][q[2]] => p = q
    /\ (boardTubes # <<>> /\ tweens = <<>>) =>
          {boardTubes[p[1]][p[2]] : p \in BallPlaces}
            = UNION {{boardOfPuzzle(z)[t][i] : i \in 1..Len(boardOfPuzzle(z)[t])} :
                         t \in 1..TUBE_COUNT, z \in PlayedPuzzles}

\* the pour from s onto t is allowed: s has a ball, t has room, and t is empty
\* or shows the colour s shows
PourAllowed(board, s, t) ==
    /\ Len(board[s]) > 0
    /\ Len(board[t]) < TUBE_CAPACITY
    /\ (Len(board[t]) = 0 \/ board[t][Len(board[t])].color = board[s][Len(board[s])].color)

\* the length of the run of one colour at the top of a tube
RunLength(balls) ==
    Cardinality({n \in 1..Len(balls) :
                    \A i \in (Len(balls) - n + 1)..Len(balls) :
                        balls[i].color = balls[Len(balls)].color})

PourCount(board, s, t) ==
    IF RunLength(board[s]) < TUBE_CAPACITY - Len(board[t])
    THEN RunLength(board[s]) ELSE TUBE_CAPACITY - Len(board[t])

\* the board after PourCount balls have gone from the top of s onto t, the top
\* ball first
Poured(board, s, t) ==
    [board EXCEPT
        ![s] = SubSeq(board[s], 1, Len(board[s]) - PourCount(board, s, t)),
        ![t] = board[t] \o [i \in 1..PourCount(board, s, t) |->
                               board[s][Len(board[s]) - i + 1]]]

\* C29: tryMoveBall(source, target) starts a move exactly when the source has a
\* ball and the target has room and is empty or shows the same colour; it then
\* sets min(k, 8 - target length) balls moving, the top ball first, counts one
\* step and clears the selection, and the balls end in the target; otherwise
\* it leaves the ball lists, the moves in flight and the step counter alone.
PourRule ==
    /\ [][(clickCount' # clickCount /\ selectedTube # 0 /\ lastClick' # selectedTube) =>
            /\ boardTubes' = boardTubes
            /\ IF PourAllowed(boardTubes, selectedTube, lastClick')
               THEN /\ jumpStepCount' = jumpStepCount + 1
                    /\ selectedTube' = 0
                    /\ Len(tweens') = Len(tweens) + 1
                    /\ SubSeq(tweens', 1, Len(tweens)) = tweens
                    /\ Len(tweens'[Len(tweens')])
                         = PourCount(boardTubes, selectedTube, lastClick')
                    /\ \A i \in 1..Len(tweens'[Len(tweens')]) :
                          /\ tweens'[Len(tweens')][i].ball
                               = boardTubes[selectedTube][Len(boardTubes[selectedTube]) - i + 1]
                          /\ tweens'[Len(tweens')][i].source = selectedTube
                          /\ tweens'[Len(tweens')][i].target = lastClick'
                          /\ tweens'[Len(tweens')][i].ballIndexInTarget
                               = Len(boardTubes[lastClick']) + i - 1
               ELSE /\ jumpStepCount' = jumpStepCount
                    /\ tweens' = tweens]_vars
    /\ []((jumpStepCount = 1 /\ tweens = <<>>) =>
            \E z \in PlayedPuzzles : \E s \in 1..MaxClickedTubes : \E t \in 1..MaxClickedTubes :
                /\ s # t
                /\ PourAllowed(boardOfPuzzle(z), s, t)
                /\ boardTubes = Poured(boardOfPuzzle(z), s, t))

\* the two reds of the second tube were poured onto the first, which had room
\* for one: one went
PourRuleWitness ==
    /\ jumpStepCount = 1
    /\ tweens = <<>>
    /\ clickCount = 2
    /\ lastClick = 1
    /\ Len(boardTubes[1]) = TUBE_CAPACITY
    /\ boardTubes[1][TUBE_CAPACITY].color = "red"
    /\ Len(boardTubes[2]) = 2

====
